---------------------------- MODULE Spec2Model ----------------------------
(***************************************************************************)
(* A model of mssql_mcp_server (src/src/mssql_mcp_server/server.py): the   *)
(* retrying connector, the configuration resolver and the three exposed    *)
(* operations call_tool, list_resources and read_resource, run against an  *)
(* ODBC driver whose answers are chosen nondeterministically.              *)
(*                                                                         *)
(* Texts (queries, error messages, advisory messages, results) are         *)
(* sequences of lexemes; a lexeme is a TLA+ string.  Substring tests of    *)
(* the code are computed lexeme-wise, with Inside giving the needles that  *)
(* occur strictly inside a composite lexeme.                               *)
(***************************************************************************)
EXTENDS Integers, Sequences, FiniteSets, TLC

VARIABLES
    pc,                 \* control point of the invocation in flight
    req,                \* the request: [op, name, hasQuery, query, uri]
    env,                \* the process environment read by get_db_config
    connection_string,  \* local of the handler: the built connection string
    attempt,            \* retry_on_transient_error.wrapper: loop variable
    sleep_time,         \* retry_on_transient_error.wrapper: pending sleep
    last_exception,     \* retry_on_transient_error.wrapper: last failure
    sleeps,             \* history: the arguments of time.sleep, in order
    conn,               \* state of the handler's connection object
    cursor,             \* the cursor: [messages, description, rowcount]
    statements,         \* call_tool: the split statements of a block
    idx,                \* call_tool: position of the block's for loop
    db,                 \* server side of the connection: [pending, committed]
    calls,              \* history: the driver calls made, in order
    openConns,          \* number of driver connections currently open
    outcome,            \* what the operation handed to the protocol layer
    log,                \* history: the lines logged by get_db_config, the
                        \* retry wrapper and get_db_connection, in order
    waiting             \* the server holds a request whose handler has not
                        \* started yet

vars == <<pc, req, env, connection_string, attempt, sleep_time, last_exception,
          sleeps, conn, cursor, statements, idx, db, calls, openConns, outcome,
          log, waiting>>

-----------------------------------------------------------------------------
(* Texts *)

\* str.upper() on the lexemes whose letter case the code looks at
Upper(tok) ==
    CASE tok = "select" -> "SELECT"
      [] tok = "Select" -> "SELECT"
      [] tok = "begin transaction" -> "BEGIN TRANSACTION"
      [] tok = "commit" -> "COMMIT"
      [] OTHER -> tok

\* str.lower() on the lexemes whose letter case the code looks at
Lower(tok) ==
    CASE tok = "Permission" -> "permission"
      [] tok = "PRIVILEGE" -> "privilege"
      [] tok = "Access Denied" -> "access denied"
      [] tok = "Not Authorized" -> "not authorized"
      [] tok = "Permissions" -> "permissions"
      [] tok = "SRV.DATABASE.WINDOWS.NET" -> "srv.database.windows.net"
      [] OTHER -> tok

\* the needles occurring strictly inside a lexeme (substring relation)
Inside(tok) ==
    CASE tok = "(229)" -> {"229"}
      [] tok = "(40229)" -> {"229", "40229"}
      [] tok = "(262)" -> {"262"}
      [] tok = "permissions" -> {"permission"}
      [] tok = "(40613)" -> {"40613"}
      [] tok = "(10054)" -> {"10054"}
      [] tok = "'BEGIN TRANSACTION'" -> {"BEGIN TRANSACTION"}
      [] tok = "srv.database.windows.net" -> {".database.windows.net"}
      [] OTHER -> {}

\* needle in text  (Python's substring operator on str)
In(needle, text) ==
    \E i \in 1..Len(text) : text[i] = needle \/ needle \in Inside(text[i])

UpperText(text) == [i \in 1..Len(text) |-> Upper(text[i])]

LowerText(text) == [i \in 1..Len(text) |-> Lower(text[i])]

\* text.startswith(prefix) for a one-lexeme prefix
StartsWith(text, prefix) == Len(text) > 0 /\ text[1] = prefix

RECURSIVE JoinTexts(_, _)
\* sep.join(texts)
JoinTexts(texts, sep) ==
    IF Len(texts) = 0 THEN <<>>
    ELSE IF Len(texts) = 1 THEN texts[1]
    ELSE texts[1] \o <<sep>> \o JoinTexts(Tail(texts), sep)

\* the lexemes of a value that holds separators of the connection string
Lex(v) ==
    CASE v = "p1;q2" -> <<"p1", ";", "q2">>
      [] v = "x1PWD=y2" -> <<"x1", "PWD=", "y2">>
      [] OTHER -> <<v>>

\* text[i:].startswith(old)
OccursAt(text, i, old) ==
    /\ i + Len(old) - 1 <= Len(text)
    /\ \A k \in 1..Len(old) : text[i + k - 1] = old[k]

RECURSIVE ReplaceFrom(_, _, _, _)
\* the scan of str.replace from position i: leftmost occurrences, without
\* overlap; an empty `old` matches before every position and at the end
ReplaceFrom(text, i, old, new) ==
    IF i > Len(text) THEN (IF old = <<>> THEN new ELSE <<>>)
    ELSE IF old = <<>>
    THEN new \o <<text[i]>> \o ReplaceFrom(text, i + 1, old, new)
    ELSE IF OccursAt(text, i, old)
    THEN new \o ReplaceFrom(text, i + Len(old), old, new)
    ELSE <<text[i]>> \o ReplaceFrom(text, i + 1, old, new)

\* text.replace(old, new)
Replace(text, old, new) == ReplaceFrom(text, 1, old, new)

-----------------------------------------------------------------------------
(* Exceptions.  An exception is [cls, args]: cls "Error" is pyodbc.Error    *)
(* (or a subclass), any other cls is not; args is the tuple of its texts.  *)

MkError(args) == [cls |-> "Error", args |-> args]

MkExc(cls, text) == [cls |-> cls, args |-> <<text>>]

\* str(e) of an exception: '' without args, the argument itself with one,
\* the tuple's repr with several
StrE(e) ==
    IF Len(e.args) = 0 THEN <<>>
    ELSE IF Len(e.args) = 1 THEN e.args[1]
    ELSE <<"(">>
         \o JoinTexts([i \in 1..Len(e.args) |-> <<"'">> \o e.args[i] \o <<"'">>], ", ")
         \o <<")">>

TRANSIENT_ERROR_CODES ==
    {"40613", "40501", "40197", "10928", "10929", "10053", "10054", "10060", "40143"}

\* f"({code})"
Paren(code) == "(" \o code \o ")"

is_transient_error(e) ==
    IF Len(e.args) = 0 THEN FALSE
    ELSE \E code \in TRANSIENT_ERROR_CODES : In(Paren(code), e.args[1])

-----------------------------------------------------------------------------
(* Configuration: get_default_driver and get_db_config *)

\* os.getenv of a variable that is not set
None == "<None>"

\* Python truthiness of an environment value: None and '' are false
Truthy(v) == v /= None /\ v /= ""

\* os.getenv(name, default)
Getenv(v, default) == IF v = None THEN default ELSE v

LinuxDrivers ==
    << "ODBC Driver 18 for SQL Server",
       "ODBC Driver 17 for SQL Server",
       "ODBC Driver 13 for SQL Server" >>

\* the probe connection string f"DRIVER={{{driver}}};SERVER=;"
ProbeString(driver) == <<"DRIVER={", driver, "};SERVER=;">>

RECURSIVE ProbeFrom(_, _)
\* mutant: the loop goes on after a probe that succeeded, and the last
\* driver whose probe succeeds is returned
ProbeFrom_NoStop(e, i) ==
    IF i > Len(LinuxDrivers)
    THEN [driver |-> "ODBC Driver 17 for SQL Server", probes |-> <<>>]
    ELSE LET rest == ProbeFrom(e, i + 1)
             ok == LinuxDrivers[i] \in e.probeOk
         IN  [driver |-> IF ok /\ \A k \in 1..Len(rest.probes) : ~rest.probes[k].ok
                        THEN LinuxDrivers[i] ELSE rest.driver,
              probes |-> <<[driver |-> LinuxDrivers[i], ok |-> ok]>> \o rest.probes]

\* the for loop of get_default_driver from position i: the probes made, in
\* order, and the driver returned
ProbeFrom(e, i) ==
    IF i > Len(LinuxDrivers)
    THEN [driver |-> "ODBC Driver 17 for SQL Server", probes |-> <<>>]
    ELSE IF LinuxDrivers[i] \in e.probeOk
    THEN [driver |-> LinuxDrivers[i],
          probes |-> <<[driver |-> LinuxDrivers[i], ok |-> TRUE]>>]
    ELSE LET rest == ProbeFrom(e, i + 1)
         IN  [driver |-> rest.driver,
              probes |-> <<[driver |-> LinuxDrivers[i], ok |-> FALSE]>> \o rest.probes]

get_default_driver(e) ==
    CASE e.platform = "windows" -> [driver |-> "SQL Server", probes |-> <<>>]
      [] e.platform = "linux" -> ProbeFrom(e, 1)
      [] e.platform = "darwin" ->
            [driver |-> "ODBC Driver 17 for SQL Server", probes |-> <<>>]
      [] OTHER -> [driver |-> "SQL Server", probes |-> <<>>]

\* mutant: the suffix is looked for without lowering the host
is_azure_CaseSensitive(server) == In(".database.windows.net", <<server>>)

\* ".database.windows.net" in config["server"].lower()
is_azure(server) == In(".database.windows.net", LowerText(<<server>>))

\* the connection string built for a validated config
BuildConnectionString(config) ==
    IF is_azure(config.server)
    THEN << "Driver={", config.driver, "};",
            "Server=tcp:", config.server, ",1433;",
            "Database=", config.database, ";",
            "UID=", config.user, ";",
            "PWD=" >> \o Lex(config.password) \o << ";",
            "Encrypt=yes;",
            "TrustServerCertificate=no;",
            "Connection Timeout=30;",
            "ApplicationIntent=ReadWrite;",
            "MultiSubnetFailover=yes;",
            "Column Encryption Setting=Enabled;" >>
    ELSE << "Driver={", config.driver, "};",
            "Server=", config.server, ";",
            "Database=", config.database, ";",
            "UID=", config.user, ";",
            "PWD=" >> \o Lex(config.password) \o << ";" >>

\* one line handed to the logger
LogLine(level, text) == [level |-> level, text |-> text]

\* f"{value}" of an environment value: None is rendered "None"
Show(v) == IF v = None THEN "None" ELSE v

\* lines 112-125: the configuration as logged, the password not among it
ConfigLoadedLog(config) ==
    << LogLine("info", <<"Getting database configuration...">>),
       LogLine("info", <<"Configuration loaded:">>),
       LogLine("info", <<"  Driver: ", Show(config.driver)>>),
       LogLine("info", <<"  Server: ", Show(config.server)>>),
       LogLine("info", <<"  Database: ", Show(config.database)>>),
       LogLine("info", <<"  User: ", Show(config.user)>>) >>

\* mutant: only the first missing variable is reported
MissingFields_FirstOnly(config) ==
    IF ~Truthy(config.user) THEN << <<"MSSQL_USER">> >>
    ELSE IF ~Truthy(config.password) THEN << <<"MSSQL_PASSWORD">> >>
    ELSE << <<"MSSQL_DATABASE">> >>

\* lines 131-134: the names of the required variables that are not set, in
\* the order user, password, database
MissingFields(config) ==
    (IF Truthy(config.user) THEN <<>> ELSE << <<"MSSQL_USER">> >>)
    \o (IF Truthy(config.password) THEN <<>> ELSE << <<"MSSQL_PASSWORD">> >>)
    \o (IF Truthy(config.database) THEN <<>> ELSE << <<"MSSQL_DATABASE">> >>)

\* line 135
MissingConfigLog(config) ==
    LogLine("error", <<"Missing required configuration: ">>
                     \o JoinTexts(MissingFields(config), ", "))

\* line 136
MissingConfigError == MkExc("ValueError", <<"Missing required database configuration">>)

\* line 140
AzureDetectedLog(config) ==
    LogLine("info", <<"Azure SQL Server detected: ",
                      IF is_azure(config.server) THEN "True" ELSE "False">>)

\* line 167: connection_string.replace(config['password'], '***')
SanitizedByConfig(cs, config) ==
    LogLine("info", <<"Connection string (sanitized): ">>
                    \o Replace(cs, Lex(config.password), <<"***">>))

\* get_db_config(): the default driver is computed before os.getenv looks
\* at MSSQL_DRIVER (it is an argument of the call), so the probes are made
\* whatever the environment holds; then the three required values are
\* checked and the connection string is built
get_db_config(e) ==
    LET dd == get_default_driver(e)
        config == [driver   |-> Getenv(e.MSSQL_DRIVER, dd.driver),
                   server   |-> Getenv(e.MSSQL_HOST, "localhost"),
                   user     |-> e.MSSQL_USER,
                   password |-> e.MSSQL_PASSWORD,
                   database |-> e.MSSQL_DATABASE]
    IN  IF ~(Truthy(config.user) /\ Truthy(config.password) /\ Truthy(config.database))
        THEN [ok |-> FALSE,
              exc |-> MissingConfigError,
              probes |-> dd.probes,
              config |-> config,
              connection_string |-> <<>>,
              log |-> Append(ConfigLoadedLog(config), MissingConfigLog(config))]
        ELSE [ok |-> TRUE,
              exc |-> MkExc("None", <<>>),
              probes |-> dd.probes,
              config |-> config,
              connection_string |-> BuildConnectionString(config),
              log |-> ConfigLoadedLog(config)
                      \o << AzureDetectedLog(config),
                            SanitizedByConfig(BuildConnectionString(config), config) >>]

-----------------------------------------------------------------------------
(* Query text: comment stripping and statement splitting of call_tool *)

Whitespace == {" ", "\n"}

RECURSIVE LStrip(_)
LStrip(text) ==
    IF Len(text) > 0 /\ text[1] \in Whitespace THEN LStrip(Tail(text)) ELSE text

RECURSIVE RStrip(_)
RStrip(text) ==
    IF Len(text) > 0 /\ text[Len(text)] \in Whitespace
    THEN RStrip(SubSeq(text, 1, Len(text) - 1))
    ELSE text

\* str.strip()
Strip(text) == RStrip(LStrip(text))

RECURSIVE SplitAcc(_, _, _)
SplitAcc(text, sep, cur) ==
    IF Len(text) = 0 THEN <<cur>>
    ELSE IF text[1] = sep THEN <<cur>> \o SplitAcc(Tail(text), sep, <<>>)
    ELSE SplitAcc(Tail(text), sep, Append(cur, text[1]))

\* str.split(sep): the segments between separators, empty ones included
Split(text, sep) == SplitAcc(text, sep, <<>>)

\* str.splitlines(): no line for an empty text or after a final newline
SplitLines(text) ==
    LET parts == Split(text, "\n")
    IN  IF parts[Len(parts)] = <<>> THEN SubSeq(parts, 1, Len(parts) - 1) ELSE parts

\* mutant: the line is not stripped before the test
IsCommentLine_NoStrip(line) == StartsWith(line, "--")

\* line.strip().startswith('--')
IsCommentLine(line) == StartsWith(Strip(line), "--")

\* cleaned_query: the lines that do not start with '--', joined and stripped
CleanedQuery(query) ==
    LET NotComment(line) == ~IsCommentLine(line)
    IN  Strip(JoinTexts(SelectSeq(SplitLines(query), NotComment), "\n"))

\* "BEGIN TRANSACTION" in cleaned_query.upper()
IsTransactionBlock(cleaned) == In("BEGIN TRANSACTION", UpperText(cleaned))

\* [s.strip() for s in cleaned_query.split(';') if s.strip()]
SplitStatements(cleaned) ==
    LET parts == Split(cleaned, ";")
        stripped == [i \in 1..Len(parts) |-> Strip(parts[i])]
        NonEmpty(t) == t /= <<>>
    IN  SelectSeq(stripped, NonEmpty)

\* stmt.upper().startswith('BEGIN TRANSACTION')
IsBeginMarker(stmt) == StartsWith(UpperText(stmt), "BEGIN TRANSACTION")

\* stmt.upper().startswith('COMMIT')
IsCommitMarker(stmt) == StartsWith(UpperText(stmt), "COMMIT")

\* cleaned_query.strip().upper().startswith("SELECT")
IsSelect(cleaned) == StartsWith(UpperText(Strip(cleaned)), "SELECT")

-----------------------------------------------------------------------------
(* Result texts *)

PermissionCodes == {"229", "230", "262", "297", "378"}

PermissionPhrases == {"permission", "privilege", "access denied", "not authorized"}

\* any(code in msg_str for code in ['229', '230', '262', '297', '378'])
HasPermissionCode(msg) == \E code \in PermissionCodes : In(code, msg)

\* mutant: the phrases are looked for without lowering the text
HasPermissionPhrase_CaseSensitive(text) == \E err \in PermissionPhrases : In(err, text)

\* any(err in text.lower() for err in [...the four phrases...])
HasPermissionPhrase(text) == \E err \in PermissionPhrases : In(err, LowerText(text))

\* mutant: only the first advisory message is inspected
FirstPermissionMessage_FirstOnly(messages) ==
    IF messages /= <<>> /\ HasPermissionCode(messages[1]) THEN <<messages[1]>> ELSE <<>>

\* the first advisory message carrying a permission code, as a sequence of
\* zero or one message (the for loop over cursor.messages returns at it)
FirstPermissionMessage(messages) ==
    LET hits == SelectSeq(messages, HasPermissionCode)
    IN  IF hits = <<>> THEN <<>> ELSE <<hits[1]>>

\* is_permission_error of the handler of pyodbc.Error
is_permission_error(error_msg, messages) ==
    \/ HasPermissionPhrase(error_msg)
    \/ \E i \in 1..Len(messages) : HasPermissionPhrase(messages[i])

\* the text answered by the handler of pyodbc.Error (lines 398-422)
SqlErrorText(e, messages) ==
    IF is_permission_error(StrE(e), messages)
    THEN <<"Permission denied: ">> \o StrE(e)
    ELSE <<"Error: ">> \o StrE(e)

\* the values of a row: an int, a str or None
IntVal(n) == [int |-> n]

StrVal(t) == [str |-> t]

NoneVal == [none |-> TRUE]

\* str(value) of a value of a row: an int in decimal, a str as itself, None
\* as "None"
Str(v) ==
    IF "int" \in DOMAIN v THEN ToString(v.int)
    ELSE IF "str" \in DOMAIN v THEN v.str
    ELSE "None"

\* mutant: every line, the last included, ends with a newline
Serialize_TrailingNewline(columns, rows) ==
    JoinTexts(<<JoinTexts([i \in 1..Len(columns) |-> <<columns[i]>>], ",")>>
              \o [r \in 1..Len(rows) |->
                    JoinTexts([i \in 1..Len(rows[r]) |-> <<Str(rows[r][i])>>], ",")],
              "\n") \o <<"\n">>

\* "\n".join([",".join(columns)] + [",".join(map(str, row)) for row in rows])
Serialize(columns, rows) ==
    JoinTexts(<<JoinTexts([i \in 1..Len(columns) |-> <<columns[i]>>], ",")>>
              \o [r \in 1..Len(rows) |->
                    JoinTexts([i \in 1..Len(rows[r]) |-> <<Str(rows[r][i])>>], ",")],
              "\n")

\* [TextContent(type="text", text=...)]
TextResult(text) == <<[type |-> "text", text |-> text]>>

\* the flags set on what call_tool returns: every return statement returns
\* the bare list of items, no CallToolResult is built around it
ResultFlags(value) == {}

-----------------------------------------------------------------------------
(* The inputs: environments, requests, and the answers of the driver *)

\* longest generated transaction block, in statements after BEGIN TRANSACTION
MaxBlockLen == 3

NoExc == [cls |-> "None", args |-> <<>>]

EnvSamples ==
    { [platform |-> "linux", probeOk |-> {},
       MSSQL_DRIVER |-> None, MSSQL_HOST |-> None,
       MSSQL_USER |-> "sa", MSSQL_PASSWORD |-> "pw", MSSQL_DATABASE |-> "db"],
      [platform |-> "linux", probeOk |-> {"ODBC Driver 17 for SQL Server"},
       MSSQL_DRIVER |-> "FreeTDS", MSSQL_HOST |-> "SRV.DATABASE.WINDOWS.NET",
       MSSQL_USER |-> "sa", MSSQL_PASSWORD |-> "pw", MSSQL_DATABASE |-> "db"],
      [platform |-> "windows", probeOk |-> {},
       MSSQL_DRIVER |-> None, MSSQL_HOST |-> "localhost",
       MSSQL_USER |-> "sa", MSSQL_PASSWORD |-> None, MSSQL_DATABASE |-> "db"],
      [platform |-> "linux", probeOk |-> {},
       MSSQL_DRIVER |-> "FreeTDS", MSSQL_HOST |-> None,
       MSSQL_USER |-> None, MSSQL_PASSWORD |-> "pw", MSSQL_DATABASE |-> ""],
      [platform |-> "linux", probeOk |-> {},
       MSSQL_DRIVER |-> None, MSSQL_HOST |-> None,
       MSSQL_USER |-> "sa", MSSQL_PASSWORD |-> "p1;q2", MSSQL_DATABASE |-> "db"],
      [platform |-> "darwin", probeOk |-> {},
       MSSQL_DRIVER |-> None, MSSQL_HOST |-> "srv.database.windows.net",
       MSSQL_USER |-> "sa", MSSQL_PASSWORD |-> "x1PWD=y2", MSSQL_DATABASE |-> "db"] }

\* errors the driver raises from connect
ConnErrors ==
    { MkError(<< <<"[08S01]", "Communication link failure", "(10054)">> >>),
      MkError(<< <<"08S01">>, <<"[08S01]", "Communication link failure", "(10054)">> >>),
      MkError(<< <<"Login failed", "10054">> >>),
      MkError(<<>>) }

\* errors the driver raises from cursor.execute
ExecErrors ==
    { MkError(<< <<"42000">>, <<"Incorrect syntax">> >>),
      MkError(<< <<"42000">>, <<"The INSERT", "Permission", "was denied">> >>),
      MkError(<< <<"(40613)", "Database not available">> >>),
      MkError(<< <<"(40613)", "Not Authorized">> >>) }

\* values of cursor.messages after an execute, each message as its str()
MessageSamples ==
    { <<>>,
      << <<"[01000]", "Changed database context">> >>,
      << <<"[01000]", "Changed database context">>,
         <<"[42000]", "(262)", "CREATE TABLE", "permission", "denied">> >>,
      << <<"[01000]", "PRIVILEGE", "missing">> >>,
      << <<"[01000]", "rows", "(40229)">> >> }

\* what a successful execute leaves in the cursor: a result set or none
ResultSamples ==
    { [hasDescription |-> TRUE, columns |-> <<"name", "id">>,
       rows |-> << <<StrVal("a"), IntVal(1)>>, <<StrVal("b"), IntVal(2)>> >>,
       rowcount |-> "-1"],
      [hasDescription |-> FALSE, columns |-> <<>>, rows |-> <<>>, rowcount |-> "2"] }

NoCursor ==
    [messages |-> <<>>, hasDescription |-> FALSE, columns |-> <<>>,
     rows |-> <<>>, rowcount |-> "-1"]

CursorAfter(result, messages) ==
    [messages |-> messages, hasDescription |-> result.hasDescription,
     columns |-> result.columns, rows |-> result.rows, rowcount |-> result.rowcount]

\* the statements a generated block is made of
BlockItems == { <<"INSERT a">>, <<"INSERT b">>, <<"COMMIT">> }

RECURSIVE BlockText(_)
\* "BEGIN TRANSACTION;\n<item>;\n<item>;..." for a sequence of items
BlockText(items) ==
    IF Len(items) = 0 THEN <<"BEGIN TRANSACTION", ";">>
    ELSE BlockText(SubSeq(items, 1, Len(items) - 1))
         \o <<"\n">> \o items[Len(items)] \o <<";">>

GeneratedBlocks ==
    { BlockText(items) :
        items \in UNION { [1..n -> BlockItems] : n \in 1..MaxBlockLen } }

QuerySamples ==
    GeneratedBlocks \cup
    { <<"SELECT", " ", "1">>,
      <<"select", " ", "1">>,
      <<"--", " ", "note", "\n", "SELECT", " ", "1">>,
      <<"--", " ", "note", "\n", " ", "--", " ", "more", "\n", "SELECT", " ", "1">>,
      <<"BEGIN TRANSACTION", ";", "\n", "--", " ", "note", "\n", "INSERT a", ";",
        "\n", "COMMIT", ";">>,
      <<"SELECT", " ", "'BEGIN TRANSACTION'">>,
      <<"INSERT a">>,
      <<"--", " ", "note", "\n", "INSERT a", " ", "--", " ", "note">>,
      <<"begin transaction", ";", "INSERT a", ";", "commit", ";">>,
      <<"BEGIN TRANSACTION", ";", "\n", "INSERT a", ";", "\n", "INSERT b", ";",
        " ", "--", " ", "note", "\n", "COMMIT", ";">>,
      <<"BEGIN TRANSACTION", ";", "INSERT a">> }

RequestSamples ==
    { [op |-> "call_tool", name |-> "execute_sql", hasQuery |-> TRUE,
       query |-> q, uri |-> <<>>] : q \in QuerySamples }
    \cup
    { [op |-> "call_tool", name |-> "execute_sql", hasQuery |-> FALSE,
       query |-> <<>>, uri |-> <<>>],
      [op |-> "call_tool", name |-> "list_tables", hasQuery |-> FALSE,
       query |-> <<>>, uri |-> <<>>],
      [op |-> "call_tool", name |-> "drop_tables", hasQuery |-> FALSE,
       query |-> <<>>, uri |-> <<>>],
      [op |-> "list_resources", name |-> "", hasQuery |-> FALSE,
       query |-> <<>>, uri |-> <<>>],
      [op |-> "read_resource", name |-> "", hasQuery |-> FALSE,
       query |-> <<>>, uri |-> <<"mssql://", "users", "/", "data">>],
      [op |-> "read_resource", name |-> "", hasQuery |-> FALSE,
       query |-> <<>>, uri |-> <<"http://", "users", "/", "data">>] }

NoRequest ==
    [op |-> "", name |-> "", hasQuery |-> FALSE, query |-> <<>>, uri |-> <<>>]

-----------------------------------------------------------------------------
(* The driver: calls recorded in order, and what they do to the server *)

\* one driver call that returned: op names the call, arg the text passed
Call(op, arg, ok) == [op |-> op, arg |-> arg, ok |-> ok, exc |-> NoExc]

\* one driver call that raised e
Failed(op, arg, e) == [op |-> op, arg |-> arg, ok |-> FALSE, exc |-> e]

EmptyDb == [pending |-> <<>>, committed |-> <<>>]

\* a statement executed without error: its effect is pending
DbExecute(d, stmt) == [d EXCEPT !.pending = Append(@, stmt)]

\* SQLEndTran(SQL_COMMIT)
DbCommit(d) == [pending |-> <<>>, committed |-> d.committed \o d.pending]

\* SQLEndTran(SQL_ROLLBACK), and what closing the connection does
DbRollback(d) == [d EXCEPT !.pending = <<>>]

\* the probe connections of get_default_driver: one connect per probe; a
\* probe that succeeded is released when get_default_driver returns
ProbeCalls(probes) ==
    [i \in 1..Len(probes) |->
        IF probes[i].ok THEN Call("probe", ProbeString(probes[i].driver), TRUE)
        ELSE Failed("probe", ProbeString(probes[i].driver), MkError(<< <<"IM002">> >>))]
    \o (IF Len(probes) > 0 /\ probes[Len(probes)].ok
        THEN <<Call("exit_commit", <<>>, TRUE), Call("close", <<>>, TRUE)>>
        ELSE <<>>)

-----------------------------------------------------------------------------
(* The retrying connector: retry_on_transient_error(5, 1, 30) *)

max_attempts == 5

initial_delay == 1

max_delay == 30

Min(a, b) == IF a < b THEN a ELSE b

\* mutant: the bound is off by one, a sixth attempt is made
ShouldRaise_OffByOne(e, a) == ~is_transient_error(e) \/ a = max_attempts

\* mutant: the error is re-raised on the last attempt only
ShouldRaise_LastOnly(e, a) == a = max_attempts - 1

\* not is_transient_error(e) or attempt == max_attempts - 1
ShouldRaise(e, a) == ~is_transient_error(e) \/ a = max_attempts - 1

\* mutant: the delay grows linearly
SleepTime_Linear(a) == Min(initial_delay * (2 * a), max_delay)

\* min(delay * (2 ** attempt), max_delay)
\* mutant: the exponent is the number of the attempt counted from 1
SleepTime_FromOne(a) == Min(initial_delay * (2 ^ (a + 1)), max_delay)

SleepTime(a) == Min(initial_delay * (2 ^ a), max_delay)

-----------------------------------------------------------------------------
(* Leaving the handler.  The connection and the cursor are pyodbc objects   *)
(* used as context managers: leaving "with conn.cursor()" without an       *)
(* exception commits, leaving "with conn" commits without an exception and *)
(* rolls back with one, and neither closes anything; the connection is     *)
(* closed when the handler's frame drops the last reference to it, which   *)
(* is when the handler returns.                                            *)

\* the driver calls made by the two __exit__ methods, innermost first
ExitCalls(exceptional) ==
    IF exceptional THEN <<Call("exit_rollback", <<>>, TRUE)>>
    ELSE <<Call("exit_commit", <<>>, TRUE), Call("exit_commit", <<>>, TRUE)>>

\* mutant: leaving the with blocks ends no transaction
ExitDb_NoCommit(d, exceptional) == d

\* SQLEndTran of the two __exit__ methods: commit, or rollback with an
\* exception in flight
ExitDb(d, exceptional) == IF exceptional THEN DbRollback(d) ELSE DbCommit(d)

\* mutant: a reference to the connection outlives the handler
ReleasedConns_Leak(n) == n

\* the connections still open once the handler's frame is gone
ReleasedConns(n) == n - 1

Returned(value) == [kind |-> "return", value |-> value, exc |-> NoExc]

Raised(e) == [kind |-> "raise", value |-> <<>>, exc |-> e]

NoOutcome == [kind |-> "none", value |-> <<>>, exc |-> NoExc]

\* the operation leaves its with blocks, normally or with an exception in
\* flight, and hands `out` over; n counts the open connections before
LeaveWith(d, cs, n, exceptional, out) ==
    /\ db' = DbRollback(ExitDb(d, exceptional))
    /\ calls' = cs \o ExitCalls(exceptional) \o <<Call("close", <<>>, TRUE)>>
    /\ conn' = "closed"
    /\ openConns' = ReleasedConns(n)
    /\ outcome' = out
    /\ pc' = "done"

\* the operation hands `out` over without holding a connection
LeavePlain(cs, out) ==
    /\ calls' = cs
    /\ outcome' = out
    /\ pc' = "done"
    /\ UNCHANGED <<db, conn, openConns>>

\* the text of call_tool's last handler, "except Exception" (lines 424-431)
GenericErrorText(e) == <<"Error: ">> \o StrE(e)

-----------------------------------------------------------------------------
(* Initial state and the environment *)

Init ==
    /\ pc = "idle"
    /\ req = NoRequest
    /\ env \in EnvSamples
    /\ connection_string = <<>>
    /\ attempt = 0
    /\ sleep_time = 0
    /\ last_exception = NoExc
    /\ sleeps = <<>>
    /\ conn = "none"
    /\ cursor = NoCursor
    /\ statements = <<>>
    /\ idx = 0
    /\ db = EmptyDb
    /\ calls = <<>>
    /\ openConns = 0
    /\ outcome = NoOutcome
    /\ log = <<>>
    /\ waiting = FALSE

\* os.environ is changed between two invocations
Setenv(e) ==
    /\ pc = "idle"
    /\ e /= env
    /\ env' = e
    /\ UNCHANGED <<pc, req, connection_string, attempt, sleep_time, last_exception,
                   sleeps, conn, cursor, statements, idx, db, calls, openConns,
                   outcome>>
    /\ UNCHANGED log
    /\ UNCHANGED waiting

\* a required value of the environment is changed while call_tool sleeps
\* between two connection attempts: the credentials are rotated
Rotate(e) ==
    /\ pc = "ct_sleep"
    /\ e /= env
    /\ Truthy(e.MSSQL_USER) /\ Truthy(e.MSSQL_PASSWORD)
    /\ [e EXCEPT !.MSSQL_USER = env.MSSQL_USER,
                 !.MSSQL_PASSWORD = env.MSSQL_PASSWORD] = env
    /\ env' = e
    /\ UNCHANGED <<pc, req, connection_string, attempt, sleep_time, last_exception,
                   sleeps, conn, cursor, statements, idx, db, calls, openConns,
                   outcome, log, waiting>>

\* the protocol layer calls one of the three operations
Invoke(r) ==
    /\ pc = "idle"
    /\ req' = r
    /\ pc' = CASE r.op = "call_tool" -> "ct_validate"
               [] r.op = "list_resources" -> "lr"
               [] OTHER -> "rr"
    /\ UNCHANGED <<env, connection_string, attempt, sleep_time, last_exception,
                   sleeps, conn, cursor, statements, idx, db, calls, openConns,
                   outcome>>
    /\ UNCHANGED log
    /\ UNCHANGED waiting

\* the server receives a request while it is idle or while a handler runs;
\* the request waits for the event loop
Receive ==
    /\ ~waiting
    /\ waiting' = TRUE
    /\ UNCHANGED <<pc, req, env, connection_string, attempt, sleep_time,
                   last_exception, sleeps, conn, cursor, statements, idx, db, calls,
                   openConns, outcome, log>>

\* the event loop starts the handler of the waiting request: call_tool,
\* list_resources and read_resource hold no await, and connect, execute and
\* time.sleep block the thread, so a handler runs from its first line to
\* its return before the event loop runs anything else
StartPending(r) ==
    /\ waiting
    /\ pc = "idle"
    /\ waiting' = FALSE
    /\ req' = r
    /\ pc' = CASE r.op = "call_tool" -> "ct_validate"
               [] r.op = "list_resources" -> "lr"
               [] OTHER -> "rr"
    /\ UNCHANGED <<env, connection_string, attempt, sleep_time, last_exception,
                   sleeps, conn, cursor, statements, idx, db, calls, openConns,
                   outcome, log>>

\* mutant: the connection and its cursor are kept for the next invocation
Finish_KeepsConnection ==
    /\ pc = "done"
    /\ pc' = "idle"
    /\ req' = NoRequest
    /\ connection_string' = <<>>
    /\ attempt' = 0
    /\ sleep_time' = 0
    /\ last_exception' = NoExc
    /\ sleeps' = <<>>
    /\ statements' = <<>>
    /\ idx' = 0
    /\ db' = EmptyDb
    /\ calls' = <<>>
    /\ outcome' = NoOutcome
    /\ log' = <<>>
    /\ UNCHANGED <<env, openConns, conn, cursor, waiting>>

\* the protocol layer has taken the outcome; the handler's locals are gone
Finish ==
    /\ pc = "done"
    /\ pc' = "idle"
    /\ req' = NoRequest
    /\ connection_string' = <<>>
    /\ attempt' = 0
    /\ sleep_time' = 0
    /\ last_exception' = NoExc
    /\ sleeps' = <<>>
    /\ conn' = "none"
    /\ cursor' = NoCursor
    /\ statements' = <<>>
    /\ idx' = 0
    /\ db' = EmptyDb
    /\ calls' = <<>>
    /\ outcome' = NoOutcome
    /\ UNCHANGED <<env, openConns>>
    /\ log' = <<>>
    /\ UNCHANGED waiting

-----------------------------------------------------------------------------
(* call_tool: validation, configuration, connection *)

\* mutant: the configuration is read before the request is validated
Validate_AfterConfig ==
    /\ pc = "ct_validate"
    /\ LET cs == calls \o ProbeCalls(get_db_config(env).probes)
       IN  IF req.name \notin {"execute_sql", "list_tables"}
           THEN LeavePlain(cs, Returned(TextResult(<<"Unknown tool: ", req.name>>)))
           ELSE IF req.name = "execute_sql" /\ ~req.hasQuery
           THEN LeavePlain(cs, Returned(TextResult(<<"Error: Query is required">>)))
           ELSE /\ pc' = "ct_config"
                /\ UNCHANGED <<db, conn, openConns, calls, outcome>>
    /\ UNCHANGED <<req, env, connection_string, attempt, sleep_time, last_exception,
                   sleeps, cursor, statements, idx>>
    /\ UNCHANGED log
    /\ UNCHANGED waiting

\* lines 261-273
Validate ==
    /\ pc = "ct_validate"
    /\ IF req.name \notin {"execute_sql", "list_tables"}
       THEN LeavePlain(calls, Returned(TextResult(<<"Unknown tool: ", req.name>>)))
       ELSE IF req.name = "execute_sql" /\ ~req.hasQuery
       THEN LeavePlain(calls, Returned(TextResult(<<"Error: Query is required">>)))
       ELSE /\ pc' = "ct_config"
            /\ UNCHANGED <<db, conn, openConns, calls, outcome>>
    /\ UNCHANGED <<req, env, connection_string, attempt, sleep_time, last_exception,
                   sleeps, cursor, statements, idx>>
    /\ UNCHANGED log
    /\ UNCHANGED waiting

\* mutant: get_db_config() is called before the try, as in list_resources
GetConfig_OutsideTry ==
    /\ pc = "ct_config"
    /\ LET c == get_db_config(env)
       IN  IF c.ok
           THEN /\ connection_string' = c.connection_string
                /\ calls' = calls \o ProbeCalls(c.probes)
                /\ pc' = "ct_connect"
                /\ UNCHANGED <<db, conn, openConns, outcome>>
           ELSE /\ connection_string' = connection_string
                /\ LeavePlain(calls \o ProbeCalls(c.probes), Raised(c.exc))
    /\ attempt' = 0
    /\ UNCHANGED <<req, env, sleep_time, last_exception, sleeps, cursor,
                   statements, idx>>
    /\ log' = log \o get_db_config(env).log
    /\ UNCHANGED waiting

\* line 278, and the handler of line 424 when get_db_config raises
GetConfig ==
    /\ pc = "ct_config"
    /\ LET c == get_db_config(env)
       IN  IF c.ok
           THEN /\ connection_string' = c.connection_string
                /\ calls' = calls \o ProbeCalls(c.probes)
                /\ pc' = "ct_connect"
                /\ UNCHANGED <<db, conn, openConns, outcome>>
           ELSE /\ connection_string' = connection_string
                /\ LeavePlain(calls \o ProbeCalls(c.probes),
                              Returned(TextResult(GenericErrorText(c.exc))))
    /\ attempt' = 0
    /\ UNCHANGED <<req, env, sleep_time, last_exception, sleeps, cursor,
                   statements, idx>>
    /\ log' = log \o get_db_config(env).log
    /\ UNCHANGED waiting

\* lines 99 and 102
ConnectedLog ==
    << LogLine("info", <<"Attempting database connection...">>),
       LogLine("info", <<"Database connection successful">>) >>

\* connection_string.split('PWD=')[1].split(';')[0]
PasswordPiece(cs) == Split(Split(cs, "PWD=")[2], ";")[1]

\* line 107: connection_string.replace(<the piece after PWD=>, '***')
SanitizedByConnection(cs) ==
    LogLine("error", <<"Connection string (sanitized): ">>
                     \o Replace(cs, PasswordPiece(cs), <<"***">>))

\* lines 99 and 105-107
ConnectionErrorLog(e, cs) ==
    << LogLine("info", <<"Attempting database connection...">>),
       LogLine("error", <<"Connection error in get_db_connection: ">> \o StrE(e)),
       LogLine("error", <<"Connection error type: ", "<class '", e.cls, "'>">>),
       SanitizedByConnection(cs) >>

\* line 89
RetryLog(delay, a) ==
    LogLine("info", <<"Transient error occurred, retrying in ", ToString(delay),
                      " seconds... (Attempt ", ToString(a + 1), "/",
                      ToString(max_attempts), ")">>)

\* get_db_connection: connect succeeds and the wrapper returns the connection
ConnectOk ==
    /\ pc = "ct_connect"
    /\ calls' = Append(calls, Call("connect", connection_string, TRUE))
    /\ conn' = "open"
    /\ openConns' = openConns + 1
    /\ pc' = "ct_exec"
    /\ UNCHANGED <<req, env, connection_string, attempt, sleep_time, last_exception,
                   sleeps, cursor, statements, idx, db, outcome>>
    /\ log' = log \o ConnectedLog
    /\ UNCHANGED waiting

\* mutant: the connection string is rebuilt from the environment at every
\* attempt
ConnectFail_Rebuild(e) ==
    /\ pc = "ct_connect"
    /\ last_exception' = e
    /\ IF ShouldRaise(e, attempt)
       THEN /\ LeavePlain(Append(calls, Failed("connect", get_db_config(env).connection_string, e)),
                          Returned(TextResult(GenericErrorText(e))))
            /\ sleep_time' = sleep_time
       ELSE /\ calls' = Append(calls, Failed("connect", get_db_config(env).connection_string, e))
            /\ sleep_time' = SleepTime(attempt)
            /\ pc' = "ct_sleep"
            /\ UNCHANGED <<db, conn, openConns, outcome>>
    /\ UNCHANGED <<req, env, connection_string, attempt, sleeps, cursor,
                   statements, idx>>
    /\ log' = log \o ConnectionErrorLog(e, connection_string)
               \o (IF ShouldRaise(e, attempt) THEN <<>> ELSE <<RetryLog(SleepTime(attempt), attempt)>>)
    /\ UNCHANGED waiting

\* get_db_connection: connect raises e; the wrapper re-raises it (to the
\* handler of line 424) or computes the sleep before the next attempt
ConnectFail(e) ==
    /\ pc = "ct_connect"
    /\ last_exception' = e
    /\ IF ShouldRaise(e, attempt)
       THEN /\ LeavePlain(Append(calls, Failed("connect", connection_string, e)),
                          Returned(TextResult(GenericErrorText(e))))
            /\ sleep_time' = sleep_time
       ELSE /\ calls' = Append(calls, Failed("connect", connection_string, e))
            /\ sleep_time' = SleepTime(attempt)
            /\ pc' = "ct_sleep"
            /\ UNCHANGED <<db, conn, openConns, outcome>>
    /\ UNCHANGED <<req, env, connection_string, attempt, sleeps, cursor,
                   statements, idx>>
    /\ log' = log \o ConnectionErrorLog(e, connection_string)
               \o (IF ShouldRaise(e, attempt) THEN <<>> ELSE <<RetryLog(SleepTime(attempt), attempt)>>)
    /\ UNCHANGED waiting

\* time.sleep(sleep_time), then the next iteration of the for loop; when the
\* range is exhausted the wrapper raises last_exception
Sleep ==
    /\ pc = "ct_sleep"
    /\ sleeps' = Append(sleeps, sleep_time)
    /\ attempt' = attempt + 1
    /\ IF attempt + 1 < max_attempts
       THEN /\ pc' = "ct_connect"
            /\ UNCHANGED <<db, conn, openConns, calls, outcome>>
       ELSE LeavePlain(calls, Returned(TextResult(GenericErrorText(last_exception))))
    /\ UNCHANGED <<req, env, connection_string, sleep_time, last_exception, cursor,
                   statements, idx>>
    /\ UNCHANGED log
    /\ UNCHANGED waiting

-----------------------------------------------------------------------------
(* call_tool: execution *)

\* fetchall() on a cursor without a result set
NoResultsError == MkError(<< <<"No results.  Previous SQL was not a query.">> >>)

\* iterating cursor.description when it is None
NoneTypeError == MkExc("TypeError", <<"'NoneType' object is not iterable">>)

\* lines 283-316: the cursor is made and the request is dispatched on the
\* tool name and on the cleaned query
Dispatch ==
    /\ pc = "ct_exec"
    /\ IF req.name = "list_tables"
       THEN pc' = "ct_list" /\ UNCHANGED <<statements, idx>>
       ELSE IF IsTransactionBlock(CleanedQuery(req.query))
       THEN /\ pc' = "ct_txn"
            /\ statements' = SplitStatements(CleanedQuery(req.query))
            /\ idx' = 1
       ELSE pc' = "ct_single" /\ UNCHANGED <<statements, idx>>
    /\ UNCHANGED <<req, env, connection_string, attempt, sleep_time, last_exception,
                   sleeps, conn, cursor, db, calls, openConns, outcome>>
    /\ UNCHANGED log
    /\ UNCHANGED waiting

ListTablesQuery ==
    <<"SELECT", " ", "TABLE_NAME FROM INFORMATION_SCHEMA.TABLES WHERE TABLE_TYPE = 'BASE TABLE'", ";">>

\* "\n".join([f"Tables_in_{database}"] + [table[0] for table in tables]),
\* table[0] being the TABLE_NAME of the row, a str
TablesText(database, rows) ==
    JoinTexts(<< <<"Tables_in_", database>> >> \o [i \in 1..Len(rows) |-> <<rows[i][1].str>>],
              "\n")

\* lines 284-302: list_tables, the driver answering with a result
ListTablesOk(r, m) ==
    /\ pc = "ct_list"
    /\ cursor' = CursorAfter(r, m)
    /\ LeaveWith(DbExecute(db, ListTablesQuery),
                 Append(calls, Call("execute", ListTablesQuery, TRUE)),
                 openConns, FALSE,
                 Returned(TextResult(
                    IF r.hasDescription
                    THEN TablesText(env.MSSQL_DATABASE, r.rows)
                    ELSE <<"Error listing tables: ">> \o StrE(NoResultsError))))
    /\ UNCHANGED <<req, env, connection_string, attempt, sleep_time, last_exception,
                   sleeps, statements, idx>>
    /\ UNCHANGED log
    /\ UNCHANGED waiting

\* lines 284-302: list_tables, the driver raising e
ListTablesRaises(e, m) ==
    /\ pc = "ct_list"
    /\ cursor' = [NoCursor EXCEPT !.messages = m]
    /\ LeaveWith(db, Append(calls, Failed("execute", ListTablesQuery, e)),
                 openConns, FALSE,
                 Returned(TextResult(<<"Error listing tables: ">> \o StrE(e))))
    /\ UNCHANGED <<req, env, connection_string, attempt, sleep_time, last_exception,
                   sleeps, statements, idx>>
    /\ UNCHANGED log
    /\ UNCHANGED waiting

\* mutant: the handler of a failed block forgets conn.rollback()
TxnFailureDb_NoRollback(d) == d

\* the server state when a block's statement has raised: conn.rollback()
TxnFailureDb(d) == DbRollback(d)

\* mutant: the error of a block's statement goes through the permission check
TxnErrorText_Classified(e, messages) == SqlErrorText(e, messages)

\* the text answered when a block's statement has raised e (lines 338-343)
TxnErrorText(e, messages) == <<"Transaction error: ">> \o StrE(e)

\* lines 321-322: the BEGIN TRANSACTION marker is skipped
TxnSkipBegin ==
    /\ pc = "ct_txn"
    /\ idx <= Len(statements)
    /\ IsBeginMarker(statements[idx])
    /\ idx' = idx + 1
    /\ UNCHANGED <<pc, req, env, connection_string, attempt, sleep_time,
                   last_exception, sleeps, conn, cursor, statements, db, calls,
                   openConns, outcome>>
    /\ UNCHANGED log
    /\ UNCHANGED waiting

\* lines 323-325: a COMMIT marker calls conn.commit()
TxnCommit ==
    /\ pc = "ct_txn"
    /\ idx <= Len(statements)
    /\ ~IsBeginMarker(statements[idx])
    /\ IsCommitMarker(statements[idx])
    /\ calls' = Append(calls, Call("commit", <<>>, TRUE))
    /\ db' = DbCommit(db)
    /\ idx' = idx + 1
    /\ UNCHANGED <<pc, req, env, connection_string, attempt, sleep_time,
                   last_exception, sleeps, conn, cursor, statements, openConns,
                   outcome>>
    /\ UNCHANGED log
    /\ UNCHANGED waiting

\* lines 326-331: a statement is executed; what fetchall raises is ignored
TxnExecOk(r, m) ==
    /\ pc = "ct_txn"
    /\ idx <= Len(statements)
    /\ ~IsBeginMarker(statements[idx])
    /\ ~IsCommitMarker(statements[idx])
    /\ calls' = Append(calls, Call("execute", statements[idx], TRUE))
    /\ db' = DbExecute(db, statements[idx])
    /\ cursor' = CursorAfter(r, m)
    /\ idx' = idx + 1
    /\ UNCHANGED <<pc, req, env, connection_string, attempt, sleep_time,
                   last_exception, sleeps, conn, statements, openConns, outcome>>
    /\ UNCHANGED log
    /\ UNCHANGED waiting

\* mutant: the loop goes on with the next statement after a rollback
TxnExecRaises_GoesOn(e, m) ==
    /\ pc = "ct_txn"
    /\ idx <= Len(statements)
    /\ ~IsBeginMarker(statements[idx])
    /\ ~IsCommitMarker(statements[idx])
    /\ cursor' = [NoCursor EXCEPT !.messages = m]
    /\ calls' = calls \o <<Failed("execute", statements[idx], e),
                            Call("rollback", <<>>, TRUE)>>
    /\ db' = TxnFailureDb(db)
    /\ idx' = idx + 1
    /\ UNCHANGED <<pc, req, env, connection_string, attempt, sleep_time,
                   last_exception, sleeps, conn, statements, openConns, outcome>>
    /\ UNCHANGED log
    /\ UNCHANGED waiting

\* lines 326, 338-343: a statement raises e: rollback and the error text
TxnExecRaises(e, m) ==
    /\ pc = "ct_txn"
    /\ idx <= Len(statements)
    /\ ~IsBeginMarker(statements[idx])
    /\ ~IsCommitMarker(statements[idx])
    /\ cursor' = [NoCursor EXCEPT !.messages = m]
    /\ LeaveWith(TxnFailureDb(db),
                 calls \o <<Failed("execute", statements[idx], e),
                            Call("rollback", <<>>, TRUE)>>,
                 openConns, FALSE,
                 Returned(TextResult(TxnErrorText(e, m))))
    /\ UNCHANGED <<req, env, connection_string, attempt, sleep_time, last_exception,
                   sleeps, statements, idx>>
    /\ UNCHANGED log
    /\ UNCHANGED waiting

\* lines 333-337: the for loop is over
TxnFinish ==
    /\ pc = "ct_txn"
    /\ idx > Len(statements)
    /\ LeaveWith(db, calls, openConns, FALSE,
                 Returned(TextResult(<<"Transaction completed successfully">>)))
    /\ UNCHANGED <<req, env, connection_string, attempt, sleep_time, last_exception,
                   sleeps, cursor, statements, idx>>
    /\ UNCHANGED log
    /\ UNCHANGED waiting

\* mutant: a single write is confirmed without conn.commit()
SingleAnswer_NoCommit(query, r, m) ==
    LET hits == FirstPermissionMessage(m)
    IN  IF hits /= <<>>
        THEN [text |-> <<"Permission denied: ">> \o hits[1],
              exceptional |-> FALSE, commit |-> FALSE]
        ELSE IF IsSelect(CleanedQuery(query))
        THEN IF r.hasDescription
             THEN [text |-> Serialize(r.columns, r.rows),
                   exceptional |-> FALSE, commit |-> FALSE]
             ELSE [text |-> GenericErrorText(NoneTypeError),
                   exceptional |-> TRUE, commit |-> FALSE]
        ELSE [text |-> <<"Query executed successfully. Rows affected: ", r.rowcount>>,
              exceptional |-> FALSE, commit |-> FALSE]

\* what a single statement answers once cursor.execute(query) has returned
\* (lines 348-397): [text, exceptional, committed]
SingleAnswer(query, r, m) ==
    LET hits == FirstPermissionMessage(m)
    IN  IF hits /= <<>>
        THEN [text |-> <<"Permission denied: ">> \o hits[1],
              exceptional |-> FALSE, commit |-> FALSE]
        ELSE IF IsSelect(CleanedQuery(query))
        THEN IF r.hasDescription
             THEN [text |-> Serialize(r.columns, r.rows),
                   exceptional |-> FALSE, commit |-> FALSE]
             ELSE [text |-> GenericErrorText(NoneTypeError),
                   exceptional |-> TRUE, commit |-> FALSE]
        ELSE [text |-> <<"Query executed successfully. Rows affected: ", r.rowcount>>,
              exceptional |-> FALSE, commit |-> TRUE]

\* line 346 and what follows it: the original query is executed
SingleExecOk(r, m) ==
    /\ pc = "ct_single"
    /\ cursor' = CursorAfter(r, m)
    /\ LET a == SingleAnswer(req.query, r, m)
           d == DbExecute(db, req.query)
           cs == Append(calls, Call("execute", req.query, TRUE))
       IN  LeaveWith(IF a.commit THEN DbCommit(d) ELSE d,
                     IF a.commit THEN Append(cs, Call("commit", <<>>, TRUE)) ELSE cs,
                     openConns, a.exceptional, Returned(TextResult(a.text)))
    /\ UNCHANGED <<req, env, connection_string, attempt, sleep_time, last_exception,
                   sleeps, statements, idx>>
    /\ UNCHANGED log
    /\ UNCHANGED waiting

\* line 346 raising e, answered by the handler of lines 398-422
SingleExecRaises(e, m) ==
    /\ pc = "ct_single"
    /\ cursor' = [NoCursor EXCEPT !.messages = m]
    /\ LeaveWith(db, Append(calls, Failed("execute", req.query, e)),
                 openConns, FALSE, Returned(TextResult(SqlErrorText(e, m))))
    /\ UNCHANGED <<req, env, connection_string, attempt, sleep_time, last_exception,
                   sleeps, statements, idx>>
    /\ UNCHANGED log
    /\ UNCHANGED waiting

-----------------------------------------------------------------------------
(* list_resources and read_resource: one plain connect, no retry *)

ListResourcesQuery ==
    <<"SELECT", " ", "TABLE_NAME FROM INFORMATION_SCHEMA.TABLES WHERE TABLE_TYPE = 'BASE TABLE'", ";">>

\* Resource(uri=f"mssql://{table[0]}/data", ...) for every row
Resources(rows) ==
    [i \in 1..Len(rows) |-> [type |-> "resource", text |-> <<"mssql://", Str(rows[i][1]), "/data">>]]

\* line 177: get_db_config() is called outside the try
LrConfig ==
    /\ pc = "lr"
    /\ LET c == get_db_config(env)
       IN  IF c.ok
           THEN /\ connection_string' = c.connection_string
                /\ calls' = calls \o ProbeCalls(c.probes)
                /\ pc' = "lr_run"
                /\ UNCHANGED <<db, conn, openConns, outcome>>
           ELSE /\ connection_string' = connection_string
                /\ LeavePlain(calls \o ProbeCalls(c.probes), Raised(c.exc))
    /\ UNCHANGED <<req, env, attempt, sleep_time, last_exception, sleeps, cursor,
                   statements, idx>>
    /\ log' = log \o get_db_config(env).log
    /\ UNCHANGED waiting

\* line 179 raising e, answered by the handler of lines 197-199
LrConnectFails(e) ==
    /\ pc = "lr_run"
    /\ LeavePlain(Append(calls, Failed("connect", connection_string, e)), Returned(<<>>))
    /\ UNCHANGED <<req, env, connection_string, attempt, sleep_time, last_exception,
                   sleeps, cursor, statements, idx>>
    /\ UNCHANGED log
    /\ UNCHANGED waiting

\* lines 179-196: the tables are fetched and listed; fetchall on a cursor
\* without a result set raises a pyodbc.Error
LrRunOk(r, m) ==
    /\ pc = "lr_run"
    /\ cursor' = CursorAfter(r, m)
    /\ LeaveWith(DbExecute(db, ListResourcesQuery),
                 calls \o <<Call("connect", connection_string, TRUE),
                            Call("execute", ListResourcesQuery, TRUE)>>,
                 openConns + 1, ~r.hasDescription,
                 Returned(IF r.hasDescription THEN Resources(r.rows) ELSE <<>>))
    /\ UNCHANGED <<req, env, connection_string, attempt, sleep_time, last_exception,
                   sleeps, statements, idx>>
    /\ UNCHANGED log
    /\ UNCHANGED waiting

\* line 182 raising e, answered by the handler of lines 197-199
LrRunRaises(e, m) ==
    /\ pc = "lr_run"
    /\ cursor' = [NoCursor EXCEPT !.messages = m]
    /\ LeaveWith(db,
                 calls \o <<Call("connect", connection_string, TRUE),
                            Failed("execute", ListResourcesQuery, e)>>,
                 openConns + 1, TRUE, Returned(<<>>))
    /\ UNCHANGED <<req, env, connection_string, attempt, sleep_time, last_exception,
                   sleeps, statements, idx>>
    /\ UNCHANGED log
    /\ UNCHANGED waiting

\* uri_str.startswith("mssql://")
ValidUri(uri) == StartsWith(uri, "mssql://")

\* uri_str[8:].split('/')[0]
TableOf(uri) == Split(Tail(uri), "/")[1]

\* f"SELECT * FROM {table} LIMIT 100"
ReadQuery(uri) == <<"SELECT", " ", "* FROM ">> \o TableOf(uri) \o <<" LIMIT 100">>

\* RuntimeError(f"Database error: {str(e)}")
DatabaseError(e) == MkExc("RuntimeError", <<"Database error: ">> \o StrE(e))

\* lines 204-212: get_db_config() outside the try, then the URI scheme
RrConfig ==
    /\ pc = "rr"
    /\ LET c == get_db_config(env)
       IN  IF ~c.ok
           THEN /\ connection_string' = connection_string
                /\ LeavePlain(calls \o ProbeCalls(c.probes), Raised(c.exc))
           ELSE IF ~ValidUri(req.uri)
           THEN /\ connection_string' = c.connection_string
                /\ LeavePlain(calls \o ProbeCalls(c.probes),
                              Raised(MkExc("ValueError", <<"Invalid URI scheme: ">> \o req.uri)))
           ELSE /\ connection_string' = c.connection_string
                /\ calls' = calls \o ProbeCalls(c.probes)
                /\ pc' = "rr_run"
                /\ UNCHANGED <<db, conn, openConns, outcome>>
    /\ UNCHANGED <<req, env, attempt, sleep_time, last_exception, sleeps, cursor,
                   statements, idx>>
    /\ log' = log \o get_db_config(env).log
    /\ UNCHANGED waiting

\* line 215 raising e, turned into a RuntimeError by lines 223-225
RrConnectFails(e) ==
    /\ pc = "rr_run"
    /\ LeavePlain(Append(calls, Failed("connect", connection_string, e)),
                  Raised(DatabaseError(e)))
    /\ UNCHANGED <<req, env, connection_string, attempt, sleep_time, last_exception,
                   sleeps, cursor, statements, idx>>
    /\ UNCHANGED log
    /\ UNCHANGED waiting

\* lines 215-221: the rows are serialized; without a result set
\* cursor.description is None and iterating it raises a TypeError
RrRunOk(r, m) ==
    /\ pc = "rr_run"
    /\ cursor' = CursorAfter(r, m)
    /\ LeaveWith(DbExecute(db, ReadQuery(req.uri)),
                 calls \o <<Call("connect", connection_string, TRUE),
                            Call("execute", ReadQuery(req.uri), TRUE)>>,
                 openConns + 1, ~r.hasDescription,
                 IF r.hasDescription
                 THEN Returned(<<[type |-> "str", text |-> Serialize(r.columns, r.rows)]>>)
                 ELSE Raised(NoneTypeError))
    /\ UNCHANGED <<req, env, connection_string, attempt, sleep_time, last_exception,
                   sleeps, statements, idx>>
    /\ UNCHANGED log
    /\ UNCHANGED waiting

\* line 217 raising e, turned into a RuntimeError by lines 223-225
RrRunRaises(e, m) ==
    /\ pc = "rr_run"
    /\ cursor' = [NoCursor EXCEPT !.messages = m]
    /\ LeaveWith(db,
                 calls \o <<Call("connect", connection_string, TRUE),
                            Failed("execute", ReadQuery(req.uri), e)>>,
                 openConns + 1, TRUE, Raised(DatabaseError(e)))
    /\ UNCHANGED <<req, env, connection_string, attempt, sleep_time, last_exception,
                   sleeps, statements, idx>>
    /\ UNCHANGED log
    /\ UNCHANGED waiting

-----------------------------------------------------------------------------
(* The specification *)

\* the steps of a handler that has started, up to handing its outcome over
HandlerStep ==
    \/ Finish
    \/ Validate
    \/ GetConfig
    \/ ConnectOk
    \/ \E e \in ConnErrors : ConnectFail(e)
    \/ Sleep
    \/ Dispatch
    \/ \E r \in ResultSamples, m \in MessageSamples : ListTablesOk(r, m)
    \/ \E e \in ExecErrors, m \in MessageSamples : ListTablesRaises(e, m)
    \/ TxnSkipBegin
    \/ TxnCommit
    \/ \E r \in ResultSamples, m \in MessageSamples : TxnExecOk(r, m)
    \/ \E e \in ExecErrors, m \in MessageSamples : TxnExecRaises(e, m)
    \/ TxnFinish
    \/ \E r \in ResultSamples, m \in MessageSamples : SingleExecOk(r, m)
    \/ \E e \in ExecErrors, m \in MessageSamples : SingleExecRaises(e, m)
    \/ LrConfig
    \/ \E e \in ConnErrors : LrConnectFails(e)
    \/ \E r \in ResultSamples, m \in MessageSamples : LrRunOk(r, m)
    \/ \E e \in ExecErrors, m \in MessageSamples : LrRunRaises(e, m)
    \/ RrConfig
    \/ \E e \in ConnErrors : RrConnectFails(e)
    \/ \E r \in ResultSamples, m \in MessageSamples : RrRunOk(r, m)
    \/ \E e \in ExecErrors, m \in MessageSamples : RrRunRaises(e, m)

Next ==
    \/ \E e \in EnvSamples : Setenv(e)
    \/ \E e \in EnvSamples : Rotate(e)
    \/ \E r \in RequestSamples : Invoke(r)
    \/ HandlerStep

Spec == Init /\ [][Next]_vars

\* the server under load: requests arrive at any time and wait for the event
\* loop, the environment being the one of a complete Linux configuration
ServerEnv ==
    [platform |-> "linux", probeOk |-> {},
     MSSQL_DRIVER |-> None, MSSQL_HOST |-> None,
     MSSQL_USER |-> "sa", MSSQL_PASSWORD |-> "pw", MSSQL_DATABASE |-> "db"]

InitServer == Init /\ env = ServerEnv

NextServer ==
    \/ Receive
    \/ \E r \in RequestSamples : StartPending(r)
    \/ HandlerStep

SpecServer == InitServer /\ [][NextServer]_vars

\* get_default_driver and the serialization of a result set on their own:
\* the platform, the drivers whose probe succeeds and the result set are
\* drawn from the sets below, and each function is applied once
MaxRows == 2

Platforms == {"windows", "linux", "darwin", "freebsd"}

DriverEnvs ==
    { [ServerEnv EXCEPT !.platform = p, !.probeOk = ok] :
        p \in Platforms,
        ok \in SUBSET {LinuxDrivers[i] : i \in 1..Len(LinuxDrivers)} }

\* the rows of a result set with k columns: an int first, then a str or None
RowSamples(k) ==
    IF k = 1 THEN { <<IntVal(n)>> : n \in {1, 2} }
    ELSE { <<IntVal(n), v>> :
            n \in {1, 2}, v \in {StrVal("a"), StrVal("b"), StrVal("x,y"), NoneVal} }

ResultSets ==
    UNION { { [hasDescription |-> TRUE, columns |-> cols, rows |-> rows, rowcount |-> "-1"] :
                rows \in UNION { [1..n -> RowSamples(Len(cols))] : n \in 0..MaxRows } } :
            cols \in { <<"id">>, <<"id", "name">> } }

InitPure ==
    /\ pc = "pure"
    /\ req = NoRequest
    /\ env \in DriverEnvs
    /\ connection_string = <<>>
    /\ attempt = 0
    /\ sleep_time = 0
    /\ last_exception = NoExc
    /\ sleeps = <<>>
    /\ conn = "none"
    /\ cursor \in {CursorAfter(r, <<>>) : r \in ResultSets}
    /\ statements = <<>>
    /\ idx = 0
    /\ db = EmptyDb
    /\ calls = <<>>
    /\ openConns = 0
    /\ outcome = NoOutcome
    /\ log = <<>>
    /\ waiting = FALSE

\* get_default_driver() is called: its probes and the driver it returns
SelectDriver ==
    /\ pc = "pure"
    /\ pc' = "driver_done"
    /\ calls' = ProbeCalls(get_default_driver(env).probes)
    /\ outcome' = Returned(<<[type |-> "driver", text |-> <<get_default_driver(env).driver>>]>>)
    /\ UNCHANGED <<req, env, connection_string, attempt, sleep_time, last_exception,
                   sleeps, conn, cursor, statements, idx, db, openConns, log, waiting>>

\* lines 363-386: call_tool serializes the result set of a SELECT
SerializeSelect ==
    /\ pc = "pure"
    /\ pc' = "select_done"
    /\ outcome' = Returned(TextResult(Serialize(cursor.columns, cursor.rows)))
    /\ UNCHANGED <<req, env, connection_string, attempt, sleep_time, last_exception,
                   sleeps, conn, cursor, statements, idx, db, calls, openConns, log,
                   waiting>>

\* lines 218-221: read_resource serializes the rows of the table
SerializeRead ==
    /\ pc = "pure"
    /\ pc' = "read_done"
    /\ outcome' = Returned(<<[type |-> "str", text |-> Serialize(cursor.columns, cursor.rows)]>>)
    /\ UNCHANGED <<req, env, connection_string, attempt, sleep_time, last_exception,
                   sleeps, conn, cursor, statements, idx, db, calls, openConns, log,
                   waiting>>

NextPure ==
    \/ SelectDriver
    \/ SerializeSelect
    \/ SerializeRead

SpecPure == InitPure /\ [][NextPure]_vars

-----------------------------------------------------------------------------
(* Properties *)

Max(S) == CHOOSE x \in S : \A y \in S : y <= x

CallsOf(op) == {i \in DOMAIN calls : calls[i].op = op}

ConnectCount == Cardinality(CallsOf("connect"))

\* the text of the single item call_tool answered
AnswerText == outcome.value[1].text

Answered == pc = "done" /\ req.op = "call_tool" /\ outcome.kind = "return"

\* a statement of a transaction block raised a driver error
BlockStatementRaised ==
    /\ Answered
    /\ idx > 0
    /\ \E i \in CallsOf("execute") : ~calls[i].ok

\* the statements executed without error before the last conn.commit()
WritesBeforeLastCommit ==
    IF CallsOf("commit") = {} THEN <<>>
    ELSE LET pre == SubSeq(calls, 1, Max(CallsOf("commit")))
             Ok(c) == c.op = "execute" /\ c.ok
             done == SelectSeq(pre, Ok)
         IN  [i \in 1..Len(done) |-> done[i].arg]

\* C1 as stated: when a statement of a transaction block raises a driver
\* error, nothing the block wrote is committed when the call returns,
\* wherever the failing statement and the COMMIT markers are, and the text
\* starts with "Transaction error: ".
C1_NothingCommitted ==
    BlockStatementRaised =>
        /\ db.committed = <<>>
        /\ StartsWith(AnswerText, "Transaction error: ")

\* C1 amended: when a statement of a transaction block raises a driver
\* error, the writes of the block made after the last COMMIT marker that
\* precedes the failing statement are rolled back (what is committed is
\* exactly what was executed before that marker, nothing when no marker
\* precedes), and the text starts with "Transaction error: ".
C1_RollbackSinceLastCommit ==
    BlockStatementRaised =>
        /\ db.committed = WritesBeforeLastCommit
        /\ db.pending = <<>>
        /\ StartsWith(AnswerText, "Transaction error: ")

C1_Witness ==
    /\ BlockStatementRaised
    /\ CallsOf("commit") = {}
    /\ \E i \in CallsOf("execute") : calls[i].ok
    /\ CallsOf("rollback") /= {}
    /\ db.committed = <<>>

\* every connection attempt so far failed with an error classified transient
AllAttemptsTransient ==
    /\ ConnectCount > 0
    /\ \A i \in CallsOf("connect") : ~calls[i].ok /\ is_transient_error(calls[i].exc)

\* C2: get_db_connection makes at most max_attempts connection attempts and
\* always terminates (the loop variable counts the attempts made, stays
\* below max_attempts, and the loop can always take its next step); when
\* every attempt fails with a transient error the failure of the last
\* attempt is raised after exactly max_attempts attempts, and no sleep
\* follows the final attempt.
C2_BoundedRetry ==
    req.op = "call_tool" =>
        /\ ConnectCount <= max_attempts
        /\ (pc = "ct_connect" =>
                /\ attempt = ConnectCount
                /\ attempt < max_attempts
                /\ ENABLED (ConnectOk \/ \E e \in ConnErrors : ConnectFail(e)))
        /\ (pc = "ct_sleep" =>
                /\ attempt + 1 = ConnectCount
                /\ attempt + 1 < max_attempts
                /\ ENABLED Sleep)
        /\ (pc \notin {"ct_connect", "ct_sleep"} /\ ConnectCount > 0
                => Len(sleeps) = ConnectCount - 1)
        /\ (pc = "done" /\ AllAttemptsTransient =>
                /\ ConnectCount = max_attempts
                /\ outcome = Returned(TextResult(
                      <<"Error: ">> \o StrE(calls[Max(CallsOf("connect"))].exc))))

C2_Witness ==
    /\ pc = "done"
    /\ req.op = "call_tool"
    /\ AllAttemptsTransient
    /\ ConnectCount = max_attempts
    /\ Len(sleeps) = max_attempts - 1

\* the results of the connection attempts, in order
ConnectResults ==
    LET IsConnect(c) == c.op = "connect"
    IN  SelectSeq(calls, IsConnect)

FourTransientThenSuccess ==
    /\ req.op = "call_tool"
    /\ Len(ConnectResults) = 5
    /\ \A i \in 1..4 : ~ConnectResults[i].ok /\ is_transient_error(ConnectResults[i].exc)
    /\ ConnectResults[5].ok

\* C3: with the default policy, four transient failures followed by a
\* success give the connection after exactly 5 attempts, the sleeps between
\* them being 1, 2, 4 and 8, in that order.
C3_BackoffSequence ==
    FourTransientThenSuccess =>
        /\ sleeps = <<1, 2, 4, 8>>
        /\ conn /= "none"
        /\ pc \notin {"ct_connect", "ct_sleep"}

C3_Witness == FourTransientThenSuccess /\ pc = "ct_exec" /\ conn = "open"

\* C4: a connection attempt failing with an error that is not transient
\* ends get_db_connection at once, whatever the attempt: that error is
\* raised, no sleep and no driver call follow it, and it is the only
\* attempt when it is the first.
C4_NoRetryOfPermanent ==
    req.op = "call_tool" =>
        \A i \in CallsOf("connect") :
            ~calls[i].ok /\ ~is_transient_error(calls[i].exc) =>
                /\ pc = "done"
                /\ i = Len(calls)
                /\ Len(sleeps) = ConnectCount - 1
                /\ (Len(sleeps) = 0 => ConnectCount = 1)
                /\ outcome = Returned(TextResult(<<"Error: ">> \o StrE(calls[i].exc)))

C4_Witness ==
    /\ req.op = "call_tool"
    /\ ConnectCount = 3
    /\ Len(sleeps) = 2
    /\ pc = "done"
    /\ ~calls[Len(calls)].ok
    /\ calls[Len(calls)].op = "connect"
    /\ ~is_transient_error(calls[Len(calls)].exc)

\* the connections the driver opened and the ones it closed
OpenedCount == Cardinality({i \in DOMAIN calls : calls[i].op \in {"connect", "probe"} /\ calls[i].ok})

ClosedCount == Cardinality(CallsOf("close"))

\* C5: every connection opened by a call_tool invocation is closed when the
\* invocation returns, on every path, and none is open between invocations.
C5_ConnectionReleased ==
    /\ (pc = "done" /\ req.op = "call_tool" =>
            /\ openConns = 0
            /\ conn /= "open"
            /\ OpenedCount = ClosedCount)
    /\ (pc = "idle" => openConns = 0)

C5_Witness ==
    /\ Answered
    /\ conn = "closed"
    /\ CallsOf("exit_rollback") /= {}
    /\ OpenedCount = 1

\* get_db_config finds a required value missing in the environment
MissingConfig ==
    ~(Truthy(env.MSSQL_USER) /\ Truthy(env.MSSQL_PASSWORD) /\ Truthy(env.MSSQL_DATABASE))

\* the operation failed: its last connection attempt or a statement raised,
\* or (past validation) the configuration is incomplete
DriverRaised ==
    \/ CallsOf("connect") /= {} /\ ~calls[Max(CallsOf("connect"))].ok
    \/ \E i \in CallsOf("execute") : ~calls[i].ok

ErrorPrefixes ==
    {"Error: ", "Permission denied: ", "Transaction error: ", "Error listing tables: "}

\* C6 as stated: no operation lets an exception escape; every failure is a
\* returned payload carrying a message, and call_tool returns one text item.
C6_NoExceptionEscapes ==
    pc = "done" =>
        /\ outcome.kind = "return"
        /\ (req.op = "call_tool" => Len(outcome.value) = 1 /\ outcome.value[1].type = "text")
        /\ (DriverRaised \/ (MissingConfig /\ req.name \in {"", "execute_sql", "list_tables"})
                => Len(outcome.value) >= 1)

\* C6 amended: call_tool lets no exception escape and returns exactly one
\* text item on every path, its failures (missing configuration, connection
\* failure after retries, driver error) carrying a prefixed message;
\* list_resources and read_resource let the ValueError of a missing
\* configuration escape, read_resource raises ValueError for an invalid
\* URI and RuntimeError("Database error: ...") for a driver error, and
\* list_resources answers a driver error with an empty list.
C6_CallToolNeverRaises ==
    pc = "done" =>
        /\ (req.op = "call_tool" =>
                /\ outcome.kind = "return"
                /\ Len(outcome.value) = 1
                /\ outcome.value[1].type = "text"
                /\ (DriverRaised \/ (MissingConfig /\ req.name \in {"execute_sql", "list_tables"}
                                     /\ (req.name = "execute_sql" => req.hasQuery))
                        => \E p \in ErrorPrefixes : StartsWith(AnswerText, p)))
        /\ (req.op \in {"list_resources", "read_resource"} /\ MissingConfig =>
                outcome.kind = "raise" /\ outcome.exc.cls = "ValueError")
        /\ (req.op = "read_resource" /\ ~MissingConfig /\ ~StartsWith(req.uri, "mssql://") =>
                outcome.kind = "raise" /\ outcome.exc.cls = "ValueError")
        /\ (req.op = "read_resource" /\ DriverRaised =>
                /\ outcome.kind = "raise"
                /\ outcome.exc.cls = "RuntimeError"
                /\ StartsWith(outcome.exc.args[1], "Database error: "))
        /\ (req.op = "list_resources" /\ DriverRaised =>
                outcome.kind = "return" /\ outcome.value = <<>>)

C6_Witness ==
    /\ Answered
    /\ MissingConfig
    /\ req.name = "list_tables"
    /\ AnswerText = <<"Error: ", "Missing required database configuration">>

\* a single statement (no transaction block) was executed without raising
SingleExecuted ==
    /\ Answered
    /\ req.name = "execute_sql"
    /\ idx = 0
    /\ \E i \in CallsOf("execute") : calls[i].ok

\* a single statement (no transaction block) raised a driver error
SingleRaised ==
    /\ Answered
    /\ req.name = "execute_sql"
    /\ idx = 0
    /\ \E i \in CallsOf("execute") : ~calls[i].ok

\* the error the last executed statement raised
RaisedExc == calls[Max(CallsOf("execute"))].exc

\* the advisory messages carrying one of the five permission codes
CodedAdvisories ==
    {k \in 1..Len(cursor.messages) :
        \E code \in {"229", "230", "262", "297", "378"} : In(code, cursor.messages[k])}

FirstCodedAdvisory == CHOOSE k \in CodedAdvisories : \A j \in CodedAdvisories : k <= j

\* C7: a single write statement that executes without raising while an
\* advisory message carries a permission code is answered "Permission
\* denied: <message>", never with the success confirmation.
C7_AdvisoryOverridesSuccess ==
    SingleExecuted /\ ~IsSelect(CleanedQuery(req.query)) /\ CodedAdvisories /= {} =>
        /\ AnswerText = <<"Permission denied: ">> \o cursor.messages[FirstCodedAdvisory]
        /\ ~StartsWith(AnswerText, "Query executed successfully. Rows affected: ")

C7_Witness ==
    /\ SingleExecuted
    /\ ~IsSelect(CleanedQuery(req.query))
    /\ CodedAdvisories = {2}
    /\ StartsWith(AnswerText, "Permission denied: ")

\* the words of the four permission phrases, in the letter cases that occur
PermissionWords ==
    {"permission", "Permission", "permissions", "Permissions", "privilege", "PRIVILEGE",
     "access denied", "Access Denied", "not authorized", "Not Authorized"}

PermissionWording(text) == \E i \in 1..Len(text) : text[i] \in PermissionWords

\* the raised error's text or an advisory message words a permission failure
PermissionWorded ==
    \/ PermissionWording(StrE(RaisedExc))
    \/ \E k \in 1..Len(cursor.messages) : PermissionWording(cursor.messages[k])

\* C8 as stated (its particular case): a driver error raised by a statement
\* of a transaction block whose text, or an advisory message, contains a
\* permission phrase is reported as "Permission denied: ...".
C8_PermissionBeforeTransaction ==
    BlockStatementRaised /\ PermissionWorded =>
        StartsWith(AnswerText, "Permission denied: ")

\* C8 amended: at execution time the order is raised-inside-transaction,
\* permission phrase, unknown, and transient codes are not consulted: an
\* error raised by a statement of a transaction block is always reported as
\* "Transaction error: ...", permission phrase or not; outside a block a
\* permission phrase gives "Permission denied: ..." and anything else
\* "Error: ...", with or without a transient code in the text.
C8_TransactionBeforePermission ==
    /\ (BlockStatementRaised =>
            AnswerText = <<"Transaction error: ">> \o StrE(RaisedExc))
    /\ (SingleRaised /\ is_transient_error(RaisedExc) =>
            IF PermissionWorded
            THEN StartsWith(AnswerText, "Permission denied: ")
            ELSE StartsWith(AnswerText, "Error: "))

C8_Witness ==
    /\ BlockStatementRaised
    /\ PermissionWording(StrE(RaisedExc))
    /\ StartsWith(AnswerText, "Transaction error: ")

\* the text of the error, in any of its arguments, holds a parenthesized
\* transient fault code
CodeInText(e) ==
    \E k \in 1..Len(e.args) :
        \E code \in TRANSIENT_ERROR_CODES : In(Paren(code), e.args[k])

\* C9 as stated: an error is classified transient exactly when its text
\* contains one of the nine codes in parenthesized form, in whichever of
\* its arguments the code appears.
C9_TransientIffCodeInText ==
    \A i \in CallsOf("connect") :
        ~calls[i].ok => (is_transient_error(calls[i].exc) <=> CodeInText(calls[i].exc))

\* C10: a driver error raised by a single statement is answered
\* "Permission denied: ..." when its text or an advisory message of the
\* cursor contains one of the four phrases in any letter case, and
\* "Error: ..." otherwise.
C10_PermissionPhrase ==
    SingleRaised =>
        IF PermissionWorded
        THEN AnswerText = <<"Permission denied: ">> \o StrE(RaisedExc)
        ELSE AnswerText = <<"Error: ">> \o StrE(RaisedExc)

C10_Witness ==
    /\ SingleRaised
    /\ In("Permission", StrE(RaisedExc))
    /\ cursor.messages = <<>>
    /\ StartsWith(AnswerText, "Permission denied: ")

\* get_db_config ran in this invocation and found a required value missing
ConfigFailed == pc = "done" /\ MissingConfig /\ log /= <<>>

\* the message of the failure handed over: of the exception that escaped, or
\* the text call_tool answered
FailureText == IF outcome.kind = "raise" THEN StrE(outcome.exc) ELSE AnswerText

\* the required variables that are not set
MissingNames ==
    {n \in {"MSSQL_USER", "MSSQL_PASSWORD", "MSSQL_DATABASE"} : ~Truthy(env[n])}

C12_NoConnectionAttemptOnMissingConfig ==
    ConfigFailed =>
        /\ CallsOf("probe") = {}
        /\ CallsOf("connect") = {}
        /\ sleeps = <<>>

\* the hosts of the cloud provider, in the letter cases that occur
AzureHosts == {"srv.database.windows.net", "SRV.DATABASE.WINDOWS.NET"}

HasLexeme(text, tok) == \E i \in 1..Len(text) : text[i] = tok

\* C13: for every valid configuration whose host contains
\* ".database.windows.net" in any letter case, the connection string has
\* port 1433, Encrypt=yes, TrustServerCertificate=no, Connection Timeout=30,
\* ApplicationIntent=ReadWrite, MultiSubnetFailover=yes and Column
\* Encryption Setting=Enabled, whatever the other configuration inputs are.
C13_AzureDescriptor ==
    connection_string /= <<>> /\ env.MSSQL_HOST \in AzureHosts =>
        /\ \E i \in 1..(Len(connection_string) - 2) :
                /\ connection_string[i] = "Server=tcp:"
                /\ connection_string[i + 1] = env.MSSQL_HOST
                /\ connection_string[i + 2] = ",1433;"
        /\ \A t \in {"Encrypt=yes;", "TrustServerCertificate=no;",
                     "Connection Timeout=30;", "ApplicationIntent=ReadWrite;",
                     "MultiSubnetFailover=yes;", "Column Encryption Setting=Enabled;"} :
                HasLexeme(connection_string, t)

C13_Witness ==
    /\ env.MSSQL_HOST = "SRV.DATABASE.WINDOWS.NET"
    /\ env.MSSQL_DRIVER = "FreeTDS"
    /\ \E i \in CallsOf("connect") :
            calls[i].ok /\ HasLexeme(calls[i].arg, "Column Encryption Setting=Enabled;")

\* C14 as stated: for every valid configuration with a Standard host the
\* connection string contains Encrypt=yes, a TrustServerCertificate value
\* following the caller's preference, MultiSubnetFailover=yes,
\* ApplicationIntent=ReadWrite and Protocol=TCP.
C14_StandardDescriptor ==
    connection_string /= <<>> /\ env.MSSQL_HOST \notin AzureHosts =>
        /\ \A t \in {"Encrypt=yes;", "MultiSubnetFailover=yes;",
                     "ApplicationIntent=ReadWrite;", "Protocol=TCP;"} :
                HasLexeme(connection_string, t)
        /\ \E t \in {"TrustServerCertificate=yes;", "TrustServerCertificate=no;"} :
                HasLexeme(connection_string, t)

\* the lexemes of the configured password that are not separators
SecretLexemes ==
    IF env.MSSQL_PASSWORD = None THEN {}
    ELSE {Lex(env.MSSQL_PASSWORD)[k] : k \in 1..Len(Lex(env.MSSQL_PASSWORD))}
         \ {";", "PWD="}

\* C15 as stated: no line logged by get_db_config or get_db_connection
\* holds the password or a part of it, and every logged connection string
\* is the one built for the configuration with "***" in the place of the
\* password, so that the log does not depend on the password.
C15_PasswordNeverLogged ==
    \A i \in 1..Len(log) :
        /\ \A k \in 1..Len(log[i].text) : log[i].text[k] \notin SecretLexemes
        /\ (StartsWith(log[i].text, "Connection string (sanitized): ") =>
                \E j \in 1..(Len(log[i].text) - 2) :
                    /\ log[i].text[j] = "PWD="
                    /\ log[i].text[j + 1] = "***"
                    /\ log[i].text[j + 2] = ";")

\* the texts passed to cursor.execute, in order
ExecutedTexts ==
    LET IsExecute(c) == c.op = "execute"
        done == SelectSeq(calls, IsExecute)
    IN  [i \in 1..Len(done) |-> done[i].arg]

\* the first lexeme of the query after its leading comment lines and blanks
LeadingKeyword(query) ==
    LET cleaned == CleanedQuery(query)
    IN  IF cleaned = <<>> THEN "" ELSE cleaned[1]

\* the serialized form of the result set the driver answers with
SerializedRows == <<"name", ",", "id", "\n", "a", ",", "1", "\n", "b", ",", "2">>

\* the statement ran without raising, without permission advisory, and left
\* a result set
CleanRead ==
    /\ \A i \in CallsOf("execute") : calls[i].ok
    /\ CodedAdvisories = {}
    /\ cursor.hasDescription

\* C16 as stated: a query whose comment-stripped text begins with SELECT
\* (any letter case) is executed as one Read statement and answered with
\* the serialized rows, also when its text contains "BEGIN TRANSACTION".
C16_SelectIsRead ==
    Answered /\ req.name = "execute_sql"
    /\ LeadingKeyword(req.query) \in {"SELECT", "select", "Select"}
    /\ CallsOf("execute") /= {} =>
        /\ ExecutedTexts = <<req.query>>
        /\ (CleanRead => AnswerText = SerializedRows)

\* the SELECT statement preceded by one or several comment lines
CommentedSelects ==
    { <<"--", " ", "note", "\n", "SELECT", " ", "1">>,
      <<"--", " ", "note", "\n", " ", "--", " ", "more", "\n", "SELECT", " ", "1">> }

\* C17: a query made of lines starting with "--" followed by a SELECT
\* statement is classified as Read, like the same query without the
\* comment lines: its cleaned text is the SELECT statement, it is executed
\* as one statement, answered with the serialized rows and not committed.
C17_LeadingCommentsIgnored ==
    Answered /\ req.name = "execute_sql" /\ req.query \in CommentedSelects
    /\ CallsOf("execute") /= {} =>
        /\ CleanedQuery(req.query) = <<"SELECT", " ", "1">>
        /\ idx = 0
        /\ ExecutedTexts = <<req.query>>
        /\ CallsOf("commit") = {}
        /\ (CleanRead => AnswerText = SerializedRows)

C17_Witness ==
    /\ Answered
    /\ Len(req.query) = 12
    /\ req.query \in CommentedSelects
    /\ CleanRead
    /\ AnswerText = SerializedRows

\* the lexemes that are transaction markers, in the letter cases that occur
MarkerLexemes == {"BEGIN TRANSACTION", "begin transaction", "COMMIT", "commit"}

\* C18 as stated: in a transaction block the BEGIN TRANSACTION and COMMIT
\* markers are never sent to the driver as SQL text, also when a
\* line-comment precedes the marker inside its ';'-delimited segment.
C18_MarkersNeverExecuted ==
    req.op = "call_tool" /\ idx > 0 =>
        \A i \in 1..Len(ExecutedTexts) :
            \A k \in 1..Len(ExecutedTexts[i]) : ExecutedTexts[i][k] \notin MarkerLexemes

\* the ';'-delimited segments of the caller's text, comments intact
OriginalSegments ==
    LET parts == Split(req.query, ";")
    IN  {Strip(parts[i]) : i \in 1..Len(parts)}

\* C19 as stated: for every query kind the text sent to the driver is taken
\* from the caller's original query with its comments intact, never from
\* the cleaned text.
C19_OriginalTextExecuted ==
    req.op = "call_tool" /\ req.name = "execute_sql" =>
        \A i \in 1..Len(ExecutedTexts) :
            IF idx = 0 THEN ExecutedTexts[i] = req.query
            ELSE ExecutedTexts[i] \in OriginalSegments

\* C20: a single non-SELECT statement that executes without error and
\* without permission advisory is committed exactly once before the call
\* returns and answered "Query executed successfully. Rows affected: <n>",
\* n the cursor's row count; a successful SELECT is answered with the
\* serialized rows; a transaction block whose statements all succeeded is
\* answered "Transaction completed successfully".
C20_SuccessAnswers ==
    /\ (SingleExecuted /\ CodedAdvisories = {} /\ ~IsSelect(CleanedQuery(req.query)) =>
            /\ AnswerText = <<"Query executed successfully. Rows affected: ", cursor.rowcount>>
            /\ Cardinality(CallsOf("commit")) = 1
            /\ Max(CallsOf("commit")) > Max(CallsOf("execute"))
            /\ db.committed = <<req.query>>)
    /\ (SingleExecuted /\ CleanRead /\ IsSelect(CleanedQuery(req.query)) =>
            AnswerText = SerializedRows)
    /\ (Answered /\ idx > 0 /\ (\A i \in CallsOf("execute") : calls[i].ok) =>
            AnswerText = <<"Transaction completed successfully">>)

C20_Witness ==
    /\ SingleExecuted
    /\ req.query = <<"INSERT a">>
    /\ AnswerText = <<"Query executed successfully. Rows affected: ", "2">>
    /\ db.committed = << <<"INSERT a">> >>

\* the invocation of call_tool failed: unknown tool, execute_sql without a
\* query, or a statement that raised (syntax error, missing object,
\* permission error, failed transaction)
FailingCallTool ==
    /\ Answered
    /\ \/ req.name \notin {"execute_sql", "list_tables"}
       \/ req.name = "execute_sql" /\ ~req.hasQuery
       \/ \E i \in CallsOf("execute") : ~calls[i].ok

\* C21 as stated: every failing call_tool invocation returns a result whose
\* isError flag is set and whose content is one text item carrying the
\* message.
C21_FailuresFlagged ==
    FailingCallTool =>
        /\ "isError" \in ResultFlags(outcome.value)
        /\ Len(outcome.value) = 1
        /\ outcome.value[1].type = "text"

\* the last driver call failed with an error whose text holds a
\* parenthesized transient fault code
SurfacedTransient ==
    /\ Answered
    /\ calls /= <<>>
    /\ calls[Len(calls)].op \in {"connect", "execute"}
    /\ ~calls[Len(calls)].ok
    /\ CodeInText(calls[Len(calls)].exc)

\* C22 as stated: an error caused by a transient fault, at connection
\* establishment or during statement execution, is returned only after
\* max_attempts attempts of the failing operation.
C22_TransientAfterBudget ==
    SurfacedTransient =>
        Cardinality({i \in CallsOf(calls[Len(calls)].op) : ~calls[i].ok}) = max_attempts

\* the connection string get_db_config builds from the current environment
LiveConnectionString == get_db_config(env).connection_string

\* C23 as stated: every connection attempt of call_tool uses the connection
\* string built from the configuration values current at that moment, also
\* after a change made between two retry attempts.
C23_RebuiltPerAttempt ==
    [][ req.op = "call_tool" /\ pc = "ct_connect" /\ calls' /= calls =>
            calls'[Len(calls')].arg = LiveConnectionString ]_vars

\* C23 amended: call_tool reads the configuration once per invocation: the
\* connection string is built from the values current when get_db_config
\* runs, and every connection attempt of the invocation, retries included,
\* uses that string; a change made between two retry attempts is not used
\* before the next invocation.
C23_ConfigReadOncePerInvocation ==
    [][ req.op = "call_tool" =>
            /\ (pc = "ct_config" /\ pc' = "ct_connect" =>
                    connection_string' = LiveConnectionString)
            /\ (pc = "ct_connect" /\ calls' /= calls =>
                    /\ calls'[Len(calls')].arg = connection_string
                    /\ connection_string' = connection_string)
            /\ (pc = "ct_sleep" => connection_string' = connection_string) ]_vars

C23_Witness ==
    /\ pc = "ct_exec"
    /\ ConnectCount >= 2
    /\ calls[Len(calls)].arg = connection_string
    /\ calls[Len(calls)].arg /= LiveConnectionString

\* nothing of a previous invocation is left: the handler's locals are the
\* ones of a handler that has not run
FreshLocals ==
    /\ connection_string = <<>>
    /\ conn = "none"
    /\ cursor = NoCursor
    /\ statements = <<>>
    /\ idx = 0
    /\ calls = <<>>
    /\ outcome = NoOutcome

C25_SleepDoesNotBlock ==
    waiting /\ pc \in {"ct_sleep", "ct_connect"} =>
        ENABLED (\E r \in RequestSamples : StartPending(r))

\* the items of seq with a comma between two of them
CommaJoined(seq) ==
    [k \in 1..(2 * Len(seq) - 1) |-> IF k % 2 = 1 THEN seq[(k + 1) \div 2] ELSE ","]

\* the string form of a value of a row
StringForm(v) ==
    CASE v = IntVal(1) -> "1"
      [] v = IntVal(2) -> "2"
      [] v = NoneVal -> "None"
      [] OTHER -> v.str

\* the text handed back by execute_sql or read_resource
SerializedText == outcome.value[1].text

ExampleResult ==
    /\ cursor.columns = <<"id", "name">>
    /\ cursor.rows = << <<IntVal(1), StrVal("a")>>, <<IntVal(2), StrVal("b")>> >>

\* C26: the text serialized from columns c1..ck and n rows has n + 1 lines
\* joined by newlines with no trailing newline and no quoting: the first is
\* the comma-joined column names, line i + 1 the comma-joined string forms of
\* the values of row i; columns [id,name] with rows (1,a),(2,b) give
\* "id,name\n1,a\n2,b"; read_resource and execute_sql give the same text.
C26_SerializedText ==
    pc \in {"select_done", "read_done"} =>
        LET lines == Split(SerializedText, "\n")
        IN  /\ Len(lines) = Len(cursor.rows) + 1
            /\ lines[1] = CommaJoined(cursor.columns)
            /\ \A i \in 1..Len(cursor.rows) :
                   lines[i + 1] =
                       CommaJoined([k \in 1..Len(cursor.rows[i]) |->
                                       StringForm(cursor.rows[i][k])])
            /\ SerializedText[Len(SerializedText)] /= "\n"
            /\ \A k \in 1..Len(SerializedText) : SerializedText[k] \notin {"\"", "'"}
            /\ ExampleResult =>
                   SerializedText =
                       <<"id", ",", "name", "\n", "1", ",", "a", "\n", "2", ",", "b">>

C26_Witness ==
    /\ pc = "read_done"
    /\ ExampleResult
    /\ SerializedText = <<"id", ",", "name", "\n", "1", ",", "a", "\n", "2", ",", "b">>

\* the drivers probed on Linux, in order
ProbeOrder ==
    << "ODBC Driver 18 for SQL Server",
       "ODBC Driver 17 for SQL Server",
       "ODBC Driver 13 for SQL Server" >>

\* the positions of the drivers whose probe connection does not fail
Installed == {i \in 1..3 : ProbeOrder[i] \in env.probeOk}

ProbeIndices == CallsOf("probe")

\* C27: get_default_driver never raises; on Linux it probes the drivers in
\* order, stops at the first probe that does not fail and returns that
\* driver, and returns the fixed default after three failed probes; on the
\* other platforms it returns the platform's driver without a probe.
C27_DriverSelection ==
    pc = "driver_done" =>
        /\ outcome.kind = "return"
        /\ \A i \in ProbeIndices :
               /\ i <= 3
               /\ calls[i].arg = <<"DRIVER={", ProbeOrder[i], "};SERVER=;">>
        /\ IF env.platform = "linux"
           THEN IF Installed = {}
                THEN /\ outcome.value[1].text = <<"ODBC Driver 17 for SQL Server">>
                     /\ ProbeIndices = 1..3
                     /\ \A i \in 1..3 : ~calls[i].ok
                ELSE LET first == CHOOSE i \in Installed : \A j \in Installed : i <= j
                     IN  /\ outcome.value[1].text = <<ProbeOrder[first]>>
                         /\ ProbeIndices = 1..first
                         /\ \A i \in 1..first : calls[i].ok <=> i = first
           ELSE /\ ProbeIndices = {}
                /\ outcome.value[1].text =
                       IF env.platform = "darwin"
                       THEN <<"ODBC Driver 17 for SQL Server">>
                       ELSE <<"SQL Server">>

C27_Witness ==
    /\ pc = "driver_done"
    /\ env.platform = "linux"
    /\ env.probeOk = {"ODBC Driver 17 for SQL Server", "ODBC Driver 13 for SQL Server"}
    /\ outcome.value[1].text = <<"ODBC Driver 17 for SQL Server">>
    /\ Cardinality(ProbeIndices) = 2

\* the delay of the policy for the failed attempt a, counted from 0
PolicyDelay(a) ==
    IF initial_delay * (2 ^ a) < max_delay THEN initial_delay * (2 ^ a) ELSE max_delay

\* C28: the sleep after the failed attempt a, counted from 0, is
\* min(initial_delay * 2^a, max_delay): it is at most max_delay, the sleeps
\* of one call never decrease, and the sleep about to be made is the one of
\* the attempt number whatever the error was.
C28_SleepSequence ==
    /\ \A i \in 1..Len(sleeps) :
           /\ sleeps[i] = PolicyDelay(i - 1)
           /\ sleeps[i] <= max_delay
           /\ i > 1 => sleeps[i - 1] <= sleeps[i]
    /\ pc = "ct_sleep" => sleep_time = PolicyDelay(attempt)

C28_Witness ==
    /\ pc = "ct_sleep"
    /\ sleeps = <<1, 2, 4>>
    /\ sleep_time = 8
    /\ attempt = 3
    /\ is_transient_error(last_exception)

\* the request is refused by the validation of call_tool
Refused ==
    /\ Answered
    /\ \/ req.name \notin {"execute_sql", "list_tables"}
       \/ req.name = "execute_sql" /\ ~req.hasQuery

\* C29: a call_tool with a name other than execute_sql or list_tables, or an
\* execute_sql without a query, answers "Unknown tool: <name>" or
\* "Error: Query is required" and has read no configuration, probed no
\* driver and attempted no connection.
C29_ValidationFirst ==
    Refused =>
        /\ AnswerText = IF req.name \notin {"execute_sql", "list_tables"}
                        THEN <<"Unknown tool: ", req.name>>
                        ELSE <<"Error: Query is required">>
        /\ calls = <<>>
        /\ log = <<>>
        /\ connection_string = <<>>

C29_Witness ==
    /\ Answered
    /\ env.platform = "linux"
    /\ req.name = "drop_tables"
    /\ AnswerText = <<"Unknown tool: ", "drop_tables">>
    /\ calls = <<>>

\* C30 as stated: with a driver override configured, the override is the
\* driver of the connection string and no probing connection is attempted;
\* probes are made only without an override.
C30_OverrideSkipsProbing ==
    /\ env.MSSQL_DRIVER /= None /\ connection_string /= <<>> =>
           /\ connection_string[2] = env.MSSQL_DRIVER
           /\ ProbeIndices = {}
    /\ ProbeIndices /= {} => env.MSSQL_DRIVER = None

\* the statements of the block that are not markers, in textual order
BlockWrites ==
    LET NotMarker(stmt) ==
            /\ ~StartsWith(UpperText(stmt), "BEGIN TRANSACTION")
            /\ ~StartsWith(UpperText(stmt), "COMMIT")
    IN  SelectSeq(statements, NotMarker)

\* the calls made after call number i
After(i, op) == {j \in CallsOf(op) : j > i}

\* C31: the statements of a transaction block are executed in their textual
\* order, and the first statement that raises a driver error is the last one
\* executed: nothing is executed after it, conn.commit() is not called after
\* it, and conn.rollback() is called once.
C31_BlockStopsAtFirstFailure ==
    req.op = "call_tool" /\ idx > 0 =>
        /\ Len(ExecutedTexts) <= Len(BlockWrites)
        /\ \A i \in 1..Len(ExecutedTexts) : ExecutedTexts[i] = BlockWrites[i]
        /\ pc = "done" /\ (\A i \in CallsOf("execute") : calls[i].ok) =>
               Len(ExecutedTexts) = Len(BlockWrites)
        /\ \A i \in CallsOf("execute") :
               ~calls[i].ok =>
                   /\ After(i, "execute") = {}
                   /\ After(i, "commit") = {}
                   /\ Cardinality(After(i, "rollback")) = 1
                   /\ Cardinality(CallsOf("rollback")) = 1
                   /\ pc = "done"

C31_Witness ==
    /\ BlockStatementRaised
    /\ Len(BlockWrites) = 3
    /\ Len(ExecutedTexts) = 2
    /\ Cardinality(CallsOf("rollback")) = 1

BlockSucceeded ==
    /\ Answered
    /\ idx > 0
    /\ AnswerText = <<"Transaction completed successfully">>

\* C32 as stated: when a block is answered "Transaction completed
\* successfully", conn.commit() was called after the last executed statement
\* and every write of the block is committed, also without a COMMIT marker
\* or with statements after the last COMMIT.
C32_ExplicitCommitAfterLastStatement ==
    BlockSucceeded =>
        /\ CallsOf("execute") /= {} => After(Max(CallsOf("execute")), "commit") /= {}
        /\ db.committed = ExecutedTexts

\* the COMMIT markers of the block
CommitMarkers ==
    {i \in 1..Len(statements) : StartsWith(UpperText(statements[i]), "COMMIT")}

\* C32 amended: when a block is answered "Transaction completed
\* successfully", every write of the block is committed once the invocation
\* has returned; conn.commit() is called at the COMMIT markers only, and the
\* writes after the last marker, or all of them without a marker, are
\* committed by the commit made when the with blocks are left.
C32_WritesCommittedOnReturn ==
    BlockSucceeded =>
        /\ db.pending = <<>>
        /\ db.committed = ExecutedTexts
        /\ ExecutedTexts = BlockWrites
        /\ Cardinality(CallsOf("commit")) = Cardinality(CommitMarkers)
        /\ \A i \in CallsOf("execute") :
               After(i, "commit") \cup After(i, "exit_commit") /= {}

C32_Witness ==
    /\ BlockSucceeded
    /\ CallsOf("commit") = {}
    /\ Len(ExecutedTexts) = 2
    /\ db.committed = ExecutedTexts

\* C33 as stated: when execute_sql answers "Permission denied" for a single
\* statement, after an advisory code or after a raised driver error, no
\* commit was called during the invocation and nothing the statement did is
\* committed.
C33_DeniedCommitsNothing ==
    /\ Answered
    /\ req.name = "execute_sql"
    /\ idx = 0
    /\ AnswerText /= <<>>
    /\ AnswerText[1] = "Permission denied: "
    => /\ CallsOf("commit") = {}
       /\ db.committed = <<>>

=============================================================================
